---- MODULE Spec2Model ----
(***************************************************************************)
(* Documentation agent: the conversational workflow (app/agents), the      *)
(* segmenter (app/processors/text_processor.py), the fragment store        *)
(* adapter (app/processors/embedding_manager.py) and the two services      *)
(* (app/services) that run ingestion and chat turns.                       *)
(*                                                                         *)
(* A Python str is a sequence of one-character strings, so that strip,     *)
(* lower, len, split and the regular expressions of the source are         *)
(* computed, not assumed.  Python None is the value None below.            *)
(***************************************************************************)
EXTENDS Integers, Sequences, FiniteSets, TLC

VARIABLES
    sessions,   \* chat_sessions table: chat_id -> NoRow or [status, error_message]
    messages,   \* chat_messages table: chat_id -> rows, in insertion order
    collections,\* fragment store: chat_id -> documents of the collection
    chunkRows,  \* document_chunks table: chat_id -> rows
    task,       \* the calls of process_documentation for a chat_id, in order of start
    ask,        \* the process_chat_message call that is followed through the graph
    other,      \* a process_chat_message call served by another thread of the pool
    del,        \* the DELETE /chat call in flight
    requests,   \* the requests received so far
    stage,      \* position of the turn in the workflow graph
    st,         \* the State object the graph threads through its nodes
    result,     \* what process_message returned, or None
    calls,      \* external calls made by the turn in flight
    path,       \* the nodes that ran in the turn, in order
    io,         \* what the turn was given: its arguments, then each outcome of the
                \* completion service and of the store, by the node that asked
    seg,        \* one call of process_document: chunk_size, document, chunks
    mg,         \* one call of merge_overlapping_chunks, and one on its output
    hp          \* one call of a function of utils/helpers.py, of the run method
                \* of a node, or one read of the history table or of the
                \* fragment store: its name, its arguments, what it found and
                \* its return value

vars == <<sessions, messages, collections, chunkRows, task, ask, other, del, requests,
          stage, st, result, calls, path, io, seg, mg, hp>>

sysVars   == <<sessions, messages, collections, chunkRows, task, ask, other, del,
               requests>>
turnVars  == <<stage, st, result, calls, path, io>>

----------------------------------------------------------------------------
(* Python values *)

None == <<"<None>">>

Range(s) == { s[i] : i \in 1..Len(s) }

Min(a, b) == IF a <= b THEN a ELSE b

Whitespace == {" ", "\n", "\t", "\r"}

LowerLetters == {"a","b","c","d","e","f","g","h","i","j","k","l","m",
                 "n","o","p","q","r","s","t","u","v","w","x","y","z"}
UpperLetters == {"A","B","C","D","E","F","G","H","I","J","K","L","M",
                 "N","O","P","Q","R","S","T","U","V","W","X","Y","Z"}
AccentLetters == {"á","é","í","ó","ú","ñ"}
Digits == {"0","1","2","3","4","5","6","7","8","9"}

(* the word characters of the re module on str patterns *)
WordChars == LowerLetters \cup UpperLetters \cup AccentLetters \cup Digits \cup {"_"}

LowerOf ==
    [A |-> "a", B |-> "b", C |-> "c", D |-> "d", E |-> "e", F |-> "f",
     G |-> "g", H |-> "h", I |-> "i", J |-> "j", K |-> "k", L |-> "l",
     M |-> "m", N |-> "n", O |-> "o", P |-> "p", Q |-> "q", R |-> "r",
     S |-> "s", T |-> "t", U |-> "u", V |-> "v", W |-> "w", X |-> "x",
     Y |-> "y", Z |-> "z"]

(* str.lower() *)
Lower(t) == [i \in 1..Len(t) |-> IF t[i] \in UpperLetters THEN LowerOf[t[i]] ELSE t[i]]

RECURSIVE LStrip(_)
LStrip(t) ==
    IF t = <<>> THEN t
    ELSE IF Head(t) \in Whitespace THEN LStrip(Tail(t)) ELSE t

RECURSIVE RStrip(_)
RStrip(t) ==
    IF t = <<>> THEN t
    ELSE IF t[Len(t)] \in Whitespace THEN RStrip(SubSeq(t, 1, Len(t) - 1)) ELSE t

(* str.strip() *)
Strip(t) == RStrip(LStrip(t))

(* text[i:] and text[:n] *)
From(t, i) == SubSeq(t, i, Len(t))
Take(t, n) == SubSeq(t, 1, Min(n, Len(t)))

(* text2.startswith(w) *)
StartsWith(t, w) == Len(w) <= Len(t) /\ SubSeq(t, 1, Len(w)) = w

(* w in text *)
Contains(t, w) == \E p \in 1..(Len(t) - Len(w) + 1) : SubSeq(t, p, p + Len(w) - 1) = w

(* sep.join(parts) *)
RECURSIVE Join(_, _)
Join(sep, parts) ==
    IF parts = <<>> THEN <<>>
    ELSE IF Len(parts) = 1 THEN parts[1]
    ELSE parts[1] \o sep \o Join(sep, Tail(parts))

(* str.split(c) on one separator character: always at least one part *)
RECURSIVE SplitOn(_, _, _)
SplitOn(t, c, cur) ==
    IF \A i \in 1..Len(t) : t[i] /= c THEN <<cur \o t>>
    ELSE LET k == CHOOSE i \in 1..Len(t) :
                      t[i] = c /\ \A j \in 1..(i - 1) : t[j] /= c
         IN  <<cur \o SubSeq(t, 1, k - 1)>> \o SplitOn(SubSeq(t, k + 1, Len(t)), c, <<>>)

(* re.search of the whole word w at position p: w begins and ends with a word character *)
MatchesWordAt(t, w, p) ==
    /\ p + Len(w) - 1 <= Len(t)
    /\ SubSeq(t, p, p + Len(w) - 1) = w
    /\ (p = 1 \/ t[p - 1] \notin WordChars)
    /\ (p + Len(w) - 1 = Len(t) \/ t[p + Len(w)] \notin WordChars)

SearchWords(t, ws) == \E w \in ws : \E p \in 1..Len(t) : MatchesWordAt(t, w, p)

----------------------------------------------------------------------------
(* Fixed texts of app/agents *)

EmptyPrompt ==
    <<"P","o","r"," ","f","a","v","o","r",","," ","p","r","o","p","o","r","c","i","o","n","a"," ","u","n","a"," ","p","r","e","g","u","n","t","a"," ","s","o","b","r","e"," ","l","a"," ","d","o","c","u","m","e","n","t","a","c","i","ó","n",".">>

FixedClarification ==
    <<"¿","P","o","d","r","í","a","s"," ","s","e","r"," ","m","á","s"," ","e","s","p","e","c","í","f","i","c","o"," ","s","o","b","r","e"," ","l","o"," ","q","u","e"," ","n","e","c","e","s","i","t","a","s"," ","s","a","b","e","r","?">>

GenerationApology ==
    <<"L","o"," ","s","i","e","n","t","o",","," ","t","u","v","e"," ","u","n"," ","p","r","o","b","l","e","m","a"," ","g","e","n","e","r","a","n","d","o"," ","l","a"," ","r","e","s","p","u","e","s","t","a","."," ","¿","P","o","d","r","í","a","s"," ","i","n","t","e","n","t","a","r"," ","r","e","f","o","r","m","u","l","a","r"," ","t","u"," ","p","r","e","g","u","n","t","a","?">>

ProcessApology ==
    <<"L","o"," ","s","i","e","n","t","o",","," ","t","u","v","e"," ","u","n"," ","p","r","o","b","l","e","m","a"," ","p","r","o","c","e","s","a","n","d","o"," ","t","u"," ","p","r","e","g","u","n","t","a","."," ","¿","P","o","d","r","í","a","s"," ","i","n","t","e","n","t","a","r"," ","r","e","f","o","r","m","u","l","a","r","l","a","?">>

ContextPrefix ==
    <<"C","o","n","t","e","x","t","o"," ","a","n","t","e","r","i","o","r",":"," ">>

QuestionPrefix ==
    <<"\n","\n","P","r","e","g","u","n","t","a"," ","a","c","t","u","a","l",":"," ">>

Truthy(x) == x /= None /\ x /= <<>>

(* x or y *)
Or(x, y) == IF Truthy(x) THEN x ELSE y

----------------------------------------------------------------------------
(* State, nodes.py *)

Intents == {"code_question", "follow_up", "general_question", "clarification"}

NewState(chat_id, user_message, chat_history) ==
    [chat_id |-> chat_id,
     user_message |-> user_message,
     chat_history |-> chat_history,
     intent |-> "None",
     retrieved_context |-> <<>>,
     response |-> None,
     formatted_response |-> None,
     confidence |-> 0,
     needs_clarification |-> FALSE,
     clarification_question |-> None]

(* A call of llm.invoke returns a text or raises *)
LLMFail == <<"<raise>">>

----------------------------------------------------------------------------
(* InputNode *)

InputNodeRun(s) ==
    IF Strip(s.user_message) = <<>>
    THEN [s EXCEPT !.user_message = EmptyPrompt]
    ELSE s

----------------------------------------------------------------------------
(* IntentAnalysisNode *)

Patterns_code_question ==
    << { <<"c", "ó", "d", "i", "g", "o">>,
         <<"c", "o", "d", "e">>,
         <<"f", "u", "n", "c", "i", "ó", "n">>,
         <<"f", "u", "n", "c", "t", "i", "o", "n">>,
         <<"c", "l", "a", "s", "e">>,
         <<"c", "l", "a", "s", "s">>,
         <<"m", "é", "t", "o", "d", "o">>,
         <<"m", "e", "t", "h", "o", "d">> },
       { <<"i", "m", "p", "l", "e", "m", "e", "n", "t", "a", "r">>,
         <<"i", "m", "p", "l", "e", "m", "e", "n", "t">>,
         <<"e", "j", "e", "m", "p", "l", "o">>,
         <<"e", "x", "a", "m", "p", "l", "e">> },
       { <<"s", "i", "n", "t", "a", "x", "i", "s">>,
         <<"s", "y", "n", "t", "a", "x">>,
         <<"e", "r", "r", "o", "r">>,
         <<"b", "u", "g">> } >>

Patterns_follow_up ==
    << { <<"a", "n", "t", "e", "r", "i", "o", "r">>,
         <<"b", "e", "f", "o", "r", "e">>,
         <<"m", "e", "n", "c", "i", "o", "n", "a", "s", "t", "e">>,
         <<"y", "o", "u", " ", "m", "e", "n", "t", "i", "o", "n", "e", "d">> },
       { <<"e", "s", "o">>,
         <<"t", "h", "a", "t">>,
         <<"e", "s", "t", "o">>,
         <<"t", "h", "i", "s">> },
       { <<"m", "á", "s">>,
         <<"m", "o", "r", "e">>,
         <<"d", "e", "t", "a", "l", "l", "e", "s">>,
         <<"d", "e", "t", "a", "i", "l", "s">> } >>

Patterns_general_question ==
    << { <<"q", "u", "é">>,
         <<"w", "h", "a", "t">>,
         <<"c", "ó", "m", "o">>,
         <<"h", "o", "w">>,
         <<"c", "u", "á", "n", "d", "o">>,
         <<"w", "h", "e", "n">>,
         <<"d", "ó", "n", "d", "e">>,
         <<"w", "h", "e", "r", "e">> },
       { <<"e", "x", "p", "l", "i", "c", "a", "r">>,
         <<"e", "x", "p", "l", "a", "i", "n">>,
         <<"d", "e", "f", "i", "n", "i", "r">>,
         <<"d", "e", "f", "i", "n", "e">> },
       { <<"c", "o", "n", "c", "e", "p", "t", "o">>,
         <<"c", "o", "n", "c", "e", "p", "t">>,
         <<"i", "d", "e", "a">>,
         <<"n", "o", "t", "i", "o", "n">> } >>

Patterns_clarification ==
    << { <<"n", "o", " ", "e", "n", "t", "i", "e", "n", "d", "o">>,
         <<"d", "o", "n", "'", "t", " ", "u", "n", "d", "e", "r", "s", "t", "a", "n", "d">>,
         <<"c", "o", "n", "f", "u", "s", "o">>,
         <<"c", "o", "n", "f", "u", "s", "e", "d">> },
       { <<"p", "u", "e", "d", "e", "s", " ", "e", "x", "p", "l", "i", "c", "a", "r">>,
         <<"c", "a", "n", " ", "y", "o", "u", " ", "e", "x", "p", "l", "a", "i", "n">>,
         <<"m", "á", "s", " ", "s", "i", "m", "p", "l", "e">>,
         <<"s", "i", "m", "p", "l", "e", "r">> } >>

intent_patterns ==
    [code_question |-> Patterns_code_question,
     follow_up |-> Patterns_follow_up,
     general_question |-> Patterns_general_question,
     clarification |-> Patterns_clarification]

(* insertion order of the scores dict *)
IntentOrder == <<"code_question", "follow_up", "general_question", "clarification">>

IntentText ==
    [code_question |-> <<"c","o","d","e","_","q","u","e","s","t","i","o","n">>,
     follow_up |-> <<"f","o","l","l","o","w","_","u","p">>,
     general_question |-> <<"g","e","n","e","r","a","l","_","q","u","e","s","t","i","o","n">>,
     clarification |-> <<"c","l","a","r","i","f","i","c","a","t","i","o","n">>]

PatternScore(message, intent) ==
    Cardinality({ k \in 1..Len(intent_patterns[intent]) :
                    SearchWords(Lower(message), intent_patterns[intent][k]) })

MaxScore(message) ==
    CHOOSE m \in { PatternScore(message, i) : i \in Intents } :
        \A i \in Intents : PatternScore(message, i) <= m

(* Step 1 without the test of a positive maximum: max() over all-zero scores     *)
(* gives the first key                                                          *)
DetectIntentDefaultFirst(message) ==
    LET k == CHOOSE k \in 1..Len(IntentOrder) :
                /\ PatternScore(message, IntentOrder[k]) = MaxScore(message)
                /\ \A j \in 1..(k - 1) :
                      PatternScore(message, IntentOrder[j]) < MaxScore(message)
    IN  IntentOrder[k]

(* Step 1 with ties going to the last key of maximal score *)
DetectIntentLastMax(message) ==
    IF MaxScore(message) > 0
    THEN LET k == CHOOSE k \in 1..Len(IntentOrder) :
                    /\ PatternScore(message, IntentOrder[k]) = MaxScore(message)
                    /\ \A j \in (k + 1)..Len(IntentOrder) :
                          PatternScore(message, IntentOrder[j]) < MaxScore(message)
         IN  IntentOrder[k]
    ELSE "general_question"

(* Step 2 without the membership test: a text that is no label is returned as   *)
(* the intent                                                                   *)
RefineIntentWithLlmUnvalidated(message, detected_intent, chat_history, llm) ==
    IF llm = LLMFail THEN detected_intent
    ELSE LET refined == Lower(Strip(llm))
         IN  IF \E i \in Intents : IntentText[i] = refined
             THEN CHOOSE i \in Intents : IntentText[i] = refined
             ELSE "unlisted"

(* Step 2 comparing the completion text as returned, neither trimmed nor        *)
(* lower-cased                                                                  *)
RefineIntentWithLlmExact(message, detected_intent, chat_history, llm) ==
    IF llm = LLMFail THEN detected_intent
    ELSE IF \E i \in Intents : IntentText[i] = llm
         THEN CHOOSE i \in Intents : IntentText[i] = llm
         ELSE detected_intent

(* max(scores, key=scores.get): the first key, in insertion order, of maximal score *)
DetectIntentByPatterns(message) ==
    IF MaxScore(message) > 0
    THEN LET k == CHOOSE k \in 1..Len(IntentOrder) :
                    /\ PatternScore(message, IntentOrder[k]) = MaxScore(message)
                    /\ \A j \in 1..(k - 1) :
                          PatternScore(message, IntentOrder[j]) < MaxScore(message)
         IN  IntentOrder[k]
    ELSE "general_question"

RefineIntentWithLlm(message, detected_intent, chat_history, llm) ==
    IF llm = LLMFail THEN detected_intent
    ELSE LET refined == Lower(Strip(llm))
         IN  IF \E i \in Intents : IntentText[i] = refined
             THEN CHOOSE i \in Intents : IntentText[i] = refined
             ELSE detected_intent

IntentAnalysisNodeRun(s, llm) ==
    [s EXCEPT !.intent =
        RefineIntentWithLlm(s.user_message, DetectIntentByPatterns(s.user_message),
                            s.chat_history, llm)]

----------------------------------------------------------------------------
(* ConditionalRouter *)

ConditionalRouterRun(s) ==
    IF s.intent = "clarification" THEN "clarification_node"
    ELSE IF s.intent = "code_question" THEN "rag_node"
    ELSE IF s.intent = "follow_up" THEN "context_builder_node"
    ELSE "rag_node"

----------------------------------------------------------------------------
(* EmbeddingManager.search_similar / search_code_blocks and RAGNode.          *)
(* Scores are integers in units of 1/240, so that the mean of up to five       *)
(* scores that are multiples of 1/4 is exact.                                  *)

One == 60 * 4

(* state.confidence < 0.3 *)
ClarifyBelow == (3 * One) \div 10

(* the store raised, or was unreachable *)
StoreFail == [ok |-> FALSE, hits |-> <<>>]

StoreAnswer(hits) == [ok |-> TRUE, hits |-> hits]

(* one formatted result of a query, from the store's document, metadata and distance *)
FormatHit(h) ==
    [content |-> h.content,
     metadata |-> h.metadata,
     distance |-> h.distance,
     relevance_score |-> One - h.distance]

(* search_similar and search_code_blocks: format the hits; any failure gives [] *)
FormatResults(raw) ==
    IF ~raw.ok THEN <<>>
    ELSE [i \in 1..Len(raw.hits) |-> FormatHit(raw.hits[i])]

(* list.sort(key=relevance_score, reverse=True): stable *)
RECURSIVE InsertDesc(_, _)
InsertDesc(x, sorted) ==
    IF sorted = <<>> THEN <<x>>
    ELSE IF Head(sorted).relevance_score >= x.relevance_score
         THEN <<Head(sorted)>> \o InsertDesc(x, Tail(sorted))
         ELSE <<x>> \o sorted

RECURSIVE SortDesc(_)
SortDesc(s) ==
    IF s = <<>> THEN <<>>
    ELSE InsertDesc(s[Len(s)], SortDesc(SubSeq(s, 1, Len(s) - 1)))

RECURSIVE SumScores(_)
SumScores(s) == IF s = <<>> THEN 0 ELSE Head(s).relevance_score + SumScores(Tail(s))

TopResults(all_results) == Take(SortDesc(all_results), 5)

(* Confidence with another value for the empty list *)
ConfidenceEmptyAsOne(top_results) ==
    IF top_results /= <<>>
    THEN SumScores(top_results) \div Len(top_results)
    ELSE One

Confidence(top_results) ==
    IF top_results /= <<>>
    THEN SumScores(top_results) \div Len(top_results)
    ELSE 0

(* general_raw, code_raw: what the store answers to the two queries *)
RAGNodeRun(s, general_raw, code_raw) ==
    LET general_results == FormatResults(general_raw)
        code_results == IF s.intent = "code_question" THEN FormatResults(code_raw) ELSE <<>>
        top_results == TopResults(general_results \o code_results)
    IN  [s EXCEPT !.retrieved_context = top_results,
                  !.confidence = Confidence(top_results)]

----------------------------------------------------------------------------
(* ContextBuilderNode *)

CueWords == { <<"e","s">>, <<"s","o","n">>, <<"d","e","f","i","n","e">>, <<"s","i","g","n","i","f","i","c","a">>, <<"p","e","r","m","i","t","e">>, <<"u","t","i","l","i","z","a">> }

RECURSIVE KeyLines(_)
KeyLines(lines) ==
    IF lines = <<>> THEN <<>>
    ELSE LET line == Strip(Head(lines))
         IN  IF /\ line /= <<>>
                /\ Len(line) < 200
                /\ \E kw \in CueWords : Contains(Lower(line), kw)
             THEN <<line>> \o KeyLines(Tail(lines))
             ELSE KeyLines(Tail(lines))

ExtractKeyInfo(response) ==
    Join(<<" ">>, Take(KeyLines(SplitOn(response, "\n", <<>>)), 2))

RECURSIVE ContextParts(_)
ContextParts(msgs) ==
    IF msgs = <<>> THEN <<>>
    ELSE LET msg == Head(msgs)
         IN  IF Truthy(msg.response) /\ ExtractKeyInfo(msg.response) /= <<>>
             THEN <<ExtractKeyInfo(msg.response)>> \o ContextParts(Tail(msgs))
             ELSE ContextParts(Tail(msgs))

(* chat_history[-n:] *)
LastN(h, n) == SubSeq(h, IF Len(h) > n THEN Len(h) - n + 1 ELSE 1, Len(h))

(* _build_context_from_history without the cut to the last four entries *)
BuildContextFromWholeHistory(chat_history) ==
    IF chat_history = <<>> THEN <<>>
    ELSE Join(<<" ">>, ContextParts(chat_history))

BuildContextFromHistory(chat_history) ==
    IF chat_history = <<>> THEN <<>>
    ELSE Join(<<" ">>, ContextParts(LastN(chat_history, 4)))

ContextBuilderNodeRun(s) ==
    IF s.chat_history = <<>>
    THEN [s EXCEPT !.intent = "general_question"]
    ELSE [s EXCEPT !.user_message =
                       ContextPrefix \o BuildContextFromHistory(s.chat_history)
                           \o QuestionPrefix \o s.user_message,
                   !.intent = "general_question"]

----------------------------------------------------------------------------
(* ResponseGenerationNode *)

(* ResponseGenerationNode.run without the assignment of the fixed question *)
ResponseGenerationNodeRunNoQuestion(s, llm) ==
    IF llm = LLMFail
    THEN [s EXCEPT !.response = GenerationApology]
    ELSE IF s.confidence < ClarifyBelow
         THEN [s EXCEPT !.response = Strip(llm),
                        !.needs_clarification = TRUE]
         ELSE [s EXCEPT !.response = Strip(llm)]

(* ResponseGenerationNode.run with an except branch that leaves the response as *)
(* it was                                                                       *)
ResponseGenerationNodeRunNoApology(s, llm) ==
    IF llm = LLMFail
    THEN s
    ELSE IF s.confidence < ClarifyBelow
         THEN [s EXCEPT !.response = Strip(llm),
                        !.needs_clarification = TRUE,
                        !.clarification_question = FixedClarification]
         ELSE [s EXCEPT !.response = Strip(llm)]

ResponseGenerationNodeRun(s, llm) ==
    IF llm = LLMFail
    THEN [s EXCEPT !.response = GenerationApology]
    ELSE IF s.confidence < ClarifyBelow
         THEN [s EXCEPT !.response = Strip(llm),
                        !.needs_clarification = TRUE,
                        !.clarification_question = FixedClarification]
         ELSE [s EXCEPT !.response = Strip(llm)]

----------------------------------------------------------------------------
(* CodeFormattingNode *)

(* the backtick character *)
Tick == "<backtick>"

Fence == <<Tick, Tick, Tick>>

(* the end of the run of word characters that starts at p, p - 1 when there is none *)
WordRunEnd(t, p) ==
    CHOOSE q \in (p - 1)..Len(t) :
        /\ \A i \in p..q : t[i] \in WordChars
        /\ (q = Len(t) \/ t[q + 1] \notin WordChars)

IsFenceAt(t, k) == k + 2 <= Len(t) /\ SubSeq(t, k, k + 2) = Fence

(* the positions from p on where the code pattern matches: a fence, an optional *)
(* word, a newline, then the first fence that follows                           *)
CodeMatchAt(t, k) ==
    /\ IsFenceAt(t, k)
    /\ WordRunEnd(t, k + 3) + 1 <= Len(t)
    /\ t[WordRunEnd(t, k + 3) + 1] = "\n"
    /\ \E j \in (WordRunEnd(t, k + 3) + 2)..Len(t) : IsFenceAt(t, j)

(* _format_code_blocks: re.sub over the leftmost matches from position p on *)
RECURSIVE FormatCodeBlocks(_, _)
FormatCodeBlocks(t, p) ==
    IF \A k \in p..Len(t) : ~CodeMatchAt(t, k) THEN SubSeq(t, p, Len(t))
    ELSE LET k == CHOOSE k \in p..Len(t) :
                      CodeMatchAt(t, k) /\ \A j \in p..(k - 1) : ~CodeMatchAt(t, j)
             e == WordRunEnd(t, k + 3)
             language == SubSeq(t, k + 3, e)
             c == CHOOSE j \in (e + 2)..Len(t) :
                      IsFenceAt(t, j) /\ \A i \in (e + 2)..(j - 1) : ~IsFenceAt(t, i)
             code == SubSeq(t, e + 2, c - 1)
         IN  SubSeq(t, p, k - 1)
                 \o Fence \o (IF language = <<>> THEN <<"t","e","x","t">> ELSE language)
                 \o <<"\n">> \o code \o <<"\n">> \o Fence
                 \o FormatCodeBlocks(t, c + 3)

(* re.findall of the code pattern from position p on: the language group, empty *)
(* when it did not take part, and the code group of each match                  *)
RECURSIVE FindCodeBlocks(_, _)
FindCodeBlocks(t, p) ==
    IF \A k \in p..Len(t) : ~CodeMatchAt(t, k) THEN <<>>
    ELSE LET k == CHOOSE k \in p..Len(t) :
                      CodeMatchAt(t, k) /\ \A j \in p..(k - 1) : ~CodeMatchAt(t, j)
             e == WordRunEnd(t, k + 3)
             c == CHOOSE j \in (e + 2)..Len(t) :
                      IsFenceAt(t, j) /\ \A i \in (e + 2)..(j - 1) : ~IsFenceAt(t, i)
         IN  <<[language |-> SubSeq(t, k + 3, e), code |-> SubSeq(t, e + 2, c - 1)]>>
                 \o FindCodeBlocks(t, c + 3)

(* the command pattern matches at k: a backtick, one or more other characters, *)
(* a backtick                                                                   *)
CommandMatchAt(t, k) ==
    /\ k + 2 <= Len(t)
    /\ t[k] = Tick
    /\ t[k + 1] /= Tick
    /\ \E j \in (k + 2)..Len(t) : t[j] = Tick

(* _format_commands: re.sub over the leftmost matches from position p on *)
RECURSIVE FormatCommands(_, _)
FormatCommands(t, p) ==
    IF \A k \in p..Len(t) : ~CommandMatchAt(t, k) THEN SubSeq(t, p, Len(t))
    ELSE LET k == CHOOSE k \in p..Len(t) :
                      CommandMatchAt(t, k) /\ \A j \in p..(k - 1) : ~CommandMatchAt(t, j)
             c == CHOOSE j \in (k + 2)..Len(t) :
                      t[j] = Tick /\ \A i \in (k + 2)..(j - 1) : t[i] /= Tick
             command == SubSeq(t, k + 1, c - 1)
         IN  SubSeq(t, p, k - 1)
                 \o (IF command[1] = Tick /\ command[Len(command)] = Tick
                     THEN SubSeq(t, k, c)
                     ELSE <<Tick>> \o command \o <<Tick>>)
                 \o FormatCommands(t, c + 1)

TermsBoldA == { <<"f","u","n","c","t","i","o","n">>, <<"c","l","a","s","s">>, <<"m","e","t","h","o","d">>, <<"v","a","r","i","a","b","l","e">>, <<"p","a","r","a","m","e","t","e","r">> }
TermsBoldB == { <<"A","P","I">>, <<"U","R","L">>, <<"H","T","T","P">>, <<"J","S","O","N">>, <<"X","M","L">>, <<"S","Q","L">> }
TermsCode == { <<"i","m","p","o","r","t">>, <<"e","x","p","o","r","t">>, <<"r","e","t","u","r","n">>, <<"i","f">>, <<"e","l","s","e">>, <<"f","o","r">>, <<"w","h","i","l","e">> }

(* re.sub of a whole word among words by pre, the word, post, ignoring case,   *)
(* over the leftmost matches from position p on: low is the lower-cased text,  *)
(* lows the lower-cased words                                                   *)
WordMatchAt(low, lows, k) == \E w \in lows : MatchesWordAt(low, w, k)

RECURSIVE SubWords(_, _, _, _, _, _)
SubWords(t, low, p, lows, pre, post) ==
    IF \A k \in p..Len(t) : ~WordMatchAt(low, lows, k) THEN SubSeq(t, p, Len(t))
    ELSE LET k == CHOOSE k \in p..Len(t) :
                      WordMatchAt(low, lows, k) /\ \A j \in p..(k - 1) : ~WordMatchAt(low, lows, j)
             w == CHOOSE w \in lows : MatchesWordAt(low, w, k)
         IN  SubSeq(t, p, k - 1) \o pre \o SubSeq(t, k, k + Len(w) - 1) \o post
                 \o SubWords(t, low, k + Len(w), lows, pre, post)

LowerAll(words) == { Lower(w) : w \in words }

FormatTechnicalTerms(t) ==
    LET a == SubWords(t, Lower(t), 1, LowerAll(TermsBoldA), <<"*", "*">>, <<"*", "*">>)
        b == SubWords(a, Lower(a), 1, LowerAll(TermsBoldB), <<"*", "*">>, <<"*", "*">>)
    IN  SubWords(b, Lower(b), 1, LowerAll(TermsCode), <<Tick>>, <<Tick>>)

CodeFormattingNodeRun(s) ==
    IF ~Truthy(s.response) THEN s
    ELSE [s EXCEPT !.formatted_response =
              FormatTechnicalTerms(FormatCommands(FormatCodeBlocks(s.response, 1), 1))]

----------------------------------------------------------------------------
(* MemoryNode *)

(* MemoryNode.run recording the raw answer instead of the final one *)
MemoryNodeRunRawAnswer(s) ==
    [s EXCEPT !.chat_history =
        Append(@, [user_message |-> s.user_message,
                   response |-> s.response,
                   intent |-> s.intent,
                   confidence |-> s.confidence,
                   timestamp |-> "now"])]

MemoryNodeRun(s) ==
    [s EXCEPT !.chat_history =
        Append(@, [user_message |-> s.user_message,
                   response |-> Or(s.formatted_response, s.response),
                   intent |-> s.intent,
                   confidence |-> s.confidence,
                   timestamp |-> "now"])]

----------------------------------------------------------------------------
(* ClarificationNode *)

ClarificationNodeRun(s, llm) ==
    IF llm = LLMFail
    THEN [s EXCEPT !.clarification_question = FixedClarification,
                   !.needs_clarification = TRUE]
    ELSE [s EXCEPT !.clarification_question = Strip(llm),
                   !.needs_clarification = TRUE]

----------------------------------------------------------------------------
(* TextProcessor, text_processor.py *)

(* the character x7F, of the class removed by _clean_text and sanitize_text:    *)
(* x00-x08, x0B, x0C, x0E-x1F, x7F                                              *)
Ctrl == "<ctrl>"
ControlChars == {Ctrl}

RemoveControl(t) == SelectSeq(t, LAMBDA c : c \notin ControlChars)

(* the index of the last character of the whitespace run that starts at p, *)
(* p - 1 when t[p] is no whitespace                                         *)
RunEnd(t, p) ==
    CHOOSE q \in (p - 1)..Len(t) :
        /\ \A i \in p..q : t[i] \in Whitespace
        /\ (q = Len(t) \/ t[q + 1] \notin Whitespace)

NewlinesIn(t, p, q) == { i \in p..q : t[i] = "\n" }

MaxOf(S) == CHOOSE x \in S : \A y \in S : y <= x

(* re.sub of every whitespace run by one space *)
RECURSIVE CollapseWhitespace(_, _)
CollapseWhitespace(t, p) ==
    IF p > Len(t) THEN <<>>
    ELSE IF t[p] \in Whitespace
         THEN <<" ">> \o CollapseWhitespace(t, RunEnd(t, p) + 1)
         ELSE <<t[p]>> \o CollapseWhitespace(t, p + 1)

(* re.sub of newline, whitespace, newline, whitespace, newline by two newlines: *)
(* a match starts at a newline and, being greedy, ends at the last newline of   *)
(* the whitespace run, which must hold three newlines or more                   *)
RECURSIVE CollapseBlankLines(_, _)
CollapseBlankLines(t, p) ==
    IF p > Len(t) THEN <<>>
    ELSE IF t[p] = "\n" /\ Cardinality(NewlinesIn(t, p, RunEnd(t, p))) >= 3
         THEN <<"\n", "\n">>
                  \o CollapseBlankLines(t, MaxOf(NewlinesIn(t, p, RunEnd(t, p))) + 1)
         ELSE <<t[p]>> \o CollapseBlankLines(t, p + 1)

CleanText(text) ==
    Strip(CollapseBlankLines(CollapseWhitespace(RemoveControl(text), 1), 1))

(* re.split on newline, whitespace, newline *)
RECURSIVE SplitParagraphs(_, _, _)
SplitParagraphs(t, p, cur) ==
    IF p > Len(t) THEN <<cur>>
    ELSE IF t[p] = "\n" /\ Cardinality(NewlinesIn(t, p, RunEnd(t, p))) >= 2
         THEN <<cur>> \o SplitParagraphs(t, MaxOf(NewlinesIn(t, p, RunEnd(t, p))) + 1, <<>>)
         ELSE SplitParagraphs(t, p + 1, Append(cur, t[p]))

SentenceEnds == {".", "!", "?"}

(* re.split on one or more of . ! ? *)
RECURSIVE SplitSentences(_, _, _)
SplitSentences(t, p, cur) ==
    IF p > Len(t) THEN <<cur>>
    ELSE IF t[p] \in SentenceEnds
         THEN IF p < Len(t) /\ t[p + 1] \in SentenceEnds
              THEN SplitSentences(t, p + 1, cur)
              ELSE <<cur>> \o SplitSentences(t, p + 1, <<>>)
         ELSE SplitSentences(t, p + 1, Append(cur, t[p]))

(* str.split(): the maximal runs of non-whitespace *)
RECURSIVE SplitWords(_, _)
SplitWords(t, cur) ==
    IF t = <<>> THEN (IF cur = <<>> THEN <<>> ELSE <<cur>>)
    ELSE IF Head(t) \in Whitespace
         THEN (IF cur = <<>> THEN <<>> ELSE <<cur>>) \o SplitWords(Tail(t), <<>>)
         ELSE SplitWords(Tail(t), Append(cur, Head(t)))

Flush(chunks, current_chunk) ==
    IF current_chunk /= <<>> THEN Append(chunks, Strip(current_chunk)) ELSE chunks

RECURSIVE WordLoop(_, _, _, _)
WordLoop(words, current_chunk, chunks, chunk_size) ==
    IF words = <<>> THEN Flush(chunks, current_chunk)
    ELSE LET word == Head(words)
         IN  IF Len(current_chunk) + Len(word) + 1 > chunk_size
             THEN IF current_chunk /= <<>>
                  THEN WordLoop(Tail(words), word,
                                Append(chunks, Strip(current_chunk)), chunk_size)
                  ELSE WordLoop(Tail(words), current_chunk,
                                Append(chunks, Take(word, chunk_size)), chunk_size)
             ELSE IF current_chunk /= <<>>
                  THEN WordLoop(Tail(words), current_chunk \o <<" ">> \o word,
                                chunks, chunk_size)
                  ELSE WordLoop(Tail(words), word, chunks, chunk_size)

SplitByWords(text, chunk_size) == WordLoop(SplitWords(text, <<>>), <<>>, <<>>, chunk_size)

RECURSIVE SentenceLoop(_, _, _, _)
SentenceLoop(sentences, current_chunk, chunks, chunk_size) ==
    IF sentences = <<>> THEN Flush(chunks, current_chunk)
    ELSE LET sentence == Strip(Head(sentences))
         IN  IF sentence = <<>>
             THEN SentenceLoop(Tail(sentences), current_chunk, chunks, chunk_size)
             ELSE IF Len(current_chunk) + Len(sentence) + 1 > chunk_size
                  THEN IF current_chunk /= <<>>
                       THEN SentenceLoop(Tail(sentences), sentence,
                                         Append(chunks, Strip(current_chunk)), chunk_size)
                       ELSE IF Len(sentence) > chunk_size
                            THEN SentenceLoop(Tail(sentences), current_chunk,
                                              chunks \o SplitByWords(sentence, chunk_size),
                                              chunk_size)
                            ELSE SentenceLoop(Tail(sentences), current_chunk,
                                              Append(chunks, sentence), chunk_size)
                  ELSE IF current_chunk /= <<>>
                       THEN SentenceLoop(Tail(sentences),
                                         current_chunk \o <<".", " ">> \o sentence,
                                         chunks, chunk_size)
                       ELSE SentenceLoop(Tail(sentences), sentence, chunks, chunk_size)

SplitLongParagraph(paragraph, chunk_size) ==
    SentenceLoop(SplitSentences(paragraph, 1, <<>>), <<>>, <<>>, chunk_size)

RECURSIVE ParagraphLoop(_, _, _, _)
ParagraphLoop(paragraphs, current_chunk, chunks, chunk_size) ==
    IF paragraphs = <<>> THEN Flush(chunks, current_chunk)
    ELSE LET paragraph == Strip(Head(paragraphs))
         IN  IF paragraph = <<>>
             THEN ParagraphLoop(Tail(paragraphs), current_chunk, chunks, chunk_size)
             ELSE IF Len(paragraph) > chunk_size
                  THEN ParagraphLoop(Tail(paragraphs), <<>>,
                                     Flush(chunks, current_chunk)
                                         \o SplitLongParagraph(paragraph, chunk_size),
                                     chunk_size)
                  ELSE IF Len(current_chunk) + Len(paragraph) + 1 > chunk_size
                       THEN ParagraphLoop(Tail(paragraphs), paragraph,
                                          Flush(chunks, current_chunk), chunk_size)
                       ELSE IF current_chunk /= <<>>
                            THEN ParagraphLoop(Tail(paragraphs),
                                               current_chunk \o <<"\n">> \o paragraph,
                                               chunks, chunk_size)
                            ELSE ParagraphLoop(Tail(paragraphs), paragraph,
                                               chunks, chunk_size)

(* _chunk_text: the contents of the chunks, which all carry the caller's metadata *)
ChunkText(text, chunk_size) ==
    IF Len(CleanText(text)) <= chunk_size
    THEN <<CleanText(text)>>
    ELSE ParagraphLoop(SplitParagraphs(CleanText(text), 1, <<>>), <<>>, <<>>, chunk_size)

TitlePrefix == <<"T","í","t","u","l","o",":"," ">>
SectionPrefix == <<"S","e","c","c","i","ó","n",":"," ">>
CodePrefix == <<"C","ó","d","i","g","o"," ","(">>
CodeInfix == <<")",":","\n">>

Url == "url"

TitleChunks(document_data) ==
    IF document_data.title /= <<>>
    THEN << [content |-> TitlePrefix \o document_data.title,
             metadata |-> [type |-> "title", url |-> document_data.url,
                           section |-> "header"],
             source |-> document_data.url] >>
    ELSE <<>>

SectionTitleChunks(section, base_url) ==
    IF section.title /= <<>>
    THEN << [content |-> SectionPrefix \o section.title,
             metadata |-> [type |-> "section_title", level |-> section.level,
                           url |-> base_url, section |-> section.title],
             source |-> base_url] >>
    ELSE <<>>

SectionTextChunks(section, base_url, chunk_size) ==
    IF section.content /= <<>>
    THEN LET texts == ChunkText(Join(<<"\n">>, section.content), chunk_size)
         IN  [i \in 1..Len(texts) |->
                 [content |-> texts[i],
                  metadata |-> [type |-> "text_content", section |-> section.title,
                                url |-> base_url],
                  source |-> base_url]]
    ELSE <<>>

CodeChunk(code_block, section, base_url) ==
    [content |-> CodePrefix \o code_block.language \o CodeInfix \o code_block.content,
     metadata |-> [type |-> "code_block", language |-> code_block.language,
                   section |-> section.title, url |-> base_url],
     source |-> base_url]

ProcessSection(section, base_url, chunk_size) ==
    SectionTitleChunks(section, base_url)
        \o SectionTextChunks(section, base_url, chunk_size)
        \o [i \in 1..Len(section.code_blocks) |->
               CodeChunk(section.code_blocks[i], section, base_url)]

RECURSIVE ProcessSections(_, _, _)
ProcessSections(sections, base_url, chunk_size) ==
    IF sections = <<>> THEN <<>>
    ELSE ProcessSection(Head(sections), base_url, chunk_size)
             \o ProcessSections(Tail(sections), base_url, chunk_size)

ProcessDocument(document_data, chunk_size) ==
    TitleChunks(document_data)
        \o ProcessSections(document_data.sections, document_data.url, chunk_size)

----------------------------------------------------------------------------
(* merge_overlapping_chunks *)

min_overlap == 50

HasSignificantOverlap(text1, text2) ==
    \E i \in 0..(Len(text1) - min_overlap) :
        /\ StartsWith(text2, From(text1, i + 1))
        /\ Len(From(text1, i + 1)) >= min_overlap

(* the first, so the longest, suffix of text1 that text2 starts with *)
FindOverlap(text1, text2) ==
    IF \E i \in 0..(Len(text1) - 1) : StartsWith(text2, From(text1, i + 1))
    THEN From(text1, 1 + CHOOSE i \in 0..(Len(text1) - 1) :
                            /\ StartsWith(text2, From(text1, i + 1))
                            /\ \A j \in 0..(i - 1) : ~StartsWith(text2, From(text1, j + 1)))
    ELSE <<>>

(* dict.update *)
DictUpdate(m1, m2) ==
    [k \in DOMAIN m1 \cup DOMAIN m2 |-> IF k \in DOMAIN m2 THEN m2[k] ELSE m1[k]]

(* A chunk holds its metadata dict by reference: its field metadata is the      *)
(* identity of a dict object, and dicts gives the value of every dict object.   *)
(* chunk.copy() is shallow: the copy holds the same dict object, and            *)
(* current_chunk['metadata'].update(...) changes that object for every chunk    *)
(* that holds it, the caller's chunks included.                                 *)
Deref(chunks, dicts) ==
    [i \in 1..Len(chunks) |-> [chunks[i] EXCEPT !.metadata = dicts[chunks[i].metadata]]]

RECURSIVE MergeLoop(_, _, _, _)
MergeLoop(rest, current_chunk, merged_chunks, dicts) ==
    IF rest = <<>> THEN [chunks |-> Append(merged_chunks, current_chunk), dicts |-> dicts]
    ELSE LET next_chunk == Head(rest)
         IN  IF HasSignificantOverlap(current_chunk.content, next_chunk.content)
             THEN MergeLoop(Tail(rest),
                            [current_chunk EXCEPT
                                !.content = current_chunk.content
                                    \o From(next_chunk.content,
                                            Len(FindOverlap(current_chunk.content,
                                                            next_chunk.content)) + 1)],
                            merged_chunks,
                            [dicts EXCEPT
                                ![current_chunk.metadata] =
                                    DictUpdate(dicts[current_chunk.metadata],
                                               dicts[next_chunk.metadata])])
             ELSE MergeLoop(Tail(rest), next_chunk, Append(merged_chunks, current_chunk),
                            dicts)

(* the returned list and the dict objects after the call *)
MergeOverlappingChunks(chunks, dicts) ==
    IF chunks = <<>> THEN [chunks |-> chunks, dicts |-> dicts]
    ELSE MergeLoop(Tail(chunks), chunks[1], <<>>, dicts)

----------------------------------------------------------------------------
(* DocumentationAgent, workflow.py *)

(* add_edge *)
StaticEdges ==
    [input |-> "intent_analysis",
     intent_analysis |-> "conditional_router",
     rag |-> "response_generation",
     context_builder |-> "rag",
     response_generation |-> "code_formatting",
     code_formatting |-> "memory",
     memory |-> "END",
     clarification |-> "END"]

(* add_conditional_edges: the map from the router's return value to a node *)
PathMap ==
    [rag |-> "rag",
     context_builder |-> "context_builder",
     clarification |-> "clarification"]

NoResult == [kind |-> "none"]

(* process_message, the return after the graph ran to END *)
ProcessMessageResult(s) ==
    [kind |-> "answer",
     chat_id |-> s.chat_id,
     response |-> IF s.needs_clarification /\ Truthy(s.clarification_question)
                  THEN s.clarification_question
                  ELSE Or(s.formatted_response, s.response),
     intent |-> s.intent,
     confidence |-> s.confidence,
     needs_clarification |-> s.needs_clarification,
     retrieved_context_count |-> Len(s.retrieved_context),
     context_sources |-> [i \in 1..Len(s.retrieved_context) |-> ""]]

(* process_message with an except branch that answers with no text *)
ProcessMessageErrorNoText(s) ==
    [kind |-> "error",
     chat_id |-> s.chat_id,
     response |-> <<>>,
     intent |-> "error",
     confidence |-> 0,
     needs_clarification |-> FALSE]

(* process_message, the return of its except branch *)
ProcessMessageError(s) ==
    [kind |-> "error",
     chat_id |-> s.chat_id,
     response |-> ProcessApology,
     intent |-> "error",
     confidence |-> 0,
     needs_clarification |-> FALSE]

----------------------------------------------------------------------------
(* Inputs of a turn *)

MaxHits == 3

Utterances ==
    { <<>>,
      <<" ", " ">>,
      <<"f","u","n","c","t","i","o","n"," ","e","x","a","m","p","l","e">>,
      <<"t","e","l","l"," ","m","e"," ","m","o","r","e"," ","a","b","o","u","t"," ","t","h","a","t">>,
      <<"w","h","a","t"," ","i","s"," ","t","h","i","s">>,
      <<"I"," ","a","m"," ","c","o","n","f","u","s","e","d">>,
      <<"h","e","l","l","o">>,
      <<"E","x","p","l","a","i","n"," ","t","h","e"," ","F","u","n","c","t","i","o","n">> }

HistoryRow(message, response, intent) ==
    [message |-> message, response |-> response, intent |-> intent, timestamp |-> "t"]

RowWithCue == HistoryRow(<<"h","e","l","l","o">>, <<"i","t"," ","u","s","e","s"," ","x","\n","o","k">>, "general_question")
RowWithoutCue == HistoryRow(<<"h","e","l","l","o">>, <<"o","k">>, "general_question")

Histories == { <<>>, <<RowWithCue>>, <<RowWithoutCue>> }

LLMTexts ==
    { <<>>,
      <<" ", "\n">>,
      <<"i","f"," ","o","k">>,
      <<" ","F","o","l","l","o","w","_","U","p","\n">>,
      <<"c","o","d","e","_","q","u","e","s","t","i","o","n">>,
      <<"c","l","a","r","i","f","i","c","a","t","i","o","n">> }

LLMOutcomes == LLMTexts \cup {LLMFail}

(* what the completion service may give when asked for an answer or a question *)
AnswerOutcomes ==
    { <<>>,
      <<" ", "\n">>,
      <<"i","f"," ","o","k">>,
      Fence \o <<"\n","i","f","\n">> \o Fence,
      LLMFail }

(* distances the store may report: 0, 1.0 and 1.5 *)
Distances == {0, One, (3 * One) \div 2}

Hit(type, d) ==
    [content |-> <<"d">>, metadata |-> [type |-> type], distance |-> d]

(* the store answers a query with at most n hits, nearest first *)
RankedHits(type, n) ==
    UNION { { [i \in 1..k |-> Hit(type, f[i])] :
                f \in { g \in [1..k -> Distances] :
                           \A i \in 1..(k - 1) : g[i] <= g[i + 1] } } :
            k \in 0..n }

GeneralOutcomes ==
    { StoreAnswer(h) : h \in RankedHits("text_content", Min(3, MaxHits)) } \cup {StoreFail}

(* search_code_blocks asks with where={"metadata.type": "code_block"}: the key  *)
(* "metadata.type" is in no metadata dict that add_chunks stores (their keys    *)
(* are type, url, section, level, language), so no document passes and the      *)
(* store answers with no hit, or the query fails                                *)
CodeOutcomes == {StoreAnswer(<<>>), StoreFail}

----------------------------------------------------------------------------
(* One turn: process_message runs the graph node by node *)

StartTurn ==
    /\ stage = "idle"
    /\ \E u \in Utterances, h \in Histories :
          /\ st' = NewState("c1", u, h)
          /\ io' = <<[node |-> "start", out |-> <<u, h>>]>>
    /\ stage' = "input"
    /\ calls' = {}
    /\ path' = <<>>
    /\ result' = NoResult
    /\ UNCHANGED <<sysVars, seg, mg, hp>>

NodeInput ==
    /\ stage = "input"
    /\ st' = InputNodeRun(st)
    /\ stage' = StaticEdges[stage]
    /\ path' = Append(path, stage)
    /\ UNCHANGED <<sysVars, result, calls, io, seg, mg, hp>>

NodeIntentAnalysis ==
    /\ stage = "intent_analysis"
    /\ \E llm \in LLMOutcomes :
          /\ st' = IntentAnalysisNodeRun(st, llm)
          /\ io' = Append(io, [node |-> "intent_analysis", out |-> llm])
    /\ stage' = StaticEdges[stage]
    /\ calls' = calls \cup {"llm"}
    /\ path' = Append(path, stage)
    /\ UNCHANGED <<sysVars, result, seg, mg, hp>>

(* The graph as built: the router's value is looked up in the path map; a value  *)
(* the map does not hold raises out of app.invoke.                               *)
RouteAsBuilt ==
    /\ stage = "conditional_router"
    /\ stage' = IF ConditionalRouterRun(st) \in DOMAIN PathMap
                THEN PathMap[ConditionalRouterRun(st)]
                ELSE "raised"
    /\ path' = Append(path, stage)
    /\ UNCHANGED <<sysVars, st, result, calls, io, seg, mg, hp>>

(* app.invoke raised: process_message answers from its except branch *)
ProcessMessageRaise ==
    /\ stage = "raised"
    /\ result' = ProcessMessageError(st)
    /\ stage' = "done"
    /\ UNCHANGED <<sysVars, st, calls, path, io, seg, mg, hp>>

----------------------------------------------------------------------------
(* The services: chat_sessions rows, the ingestion background task, a chat turn *)

ChatIds == {"c1", "c1_url_0"}

(* the requests followed in one behaviour of two chats *)
MaxRequests == 3

(* a request is received, and counted *)
Received ==
    /\ requests < MaxRequests
    /\ requests' = requests + 1

(* the requests followed in one behaviour of a single chat *)
MaxChatRequests == 4

ReceivedOnChat ==
    /\ requests < MaxChatRequests
    /\ requests' = requests + 1

(* the requests that start an ingestion, followed where the store and history   *)
(* operations of two chats are interleaved                                      *)
MaxIngestRequests == 2

IngestReceived ==
    /\ requests < MaxIngestRequests
    /\ requests' = requests + 1

(* a request is received by a scenario that does not count its requests *)
Uncounted == UNCHANGED requests

MaxTurns == 2

NotReadyText ==
    <<"L","a"," ","d","o","c","u","m","e","n","t","a","c","i","ó","n"," ","a","ú","n"," ","n","o"," ","h","a"," ","s","i","d","o"," ","p","r","o","c","e","s","a","d","a","."," ","P","o","r"," ","f","a","v","o","r",","," ","e","s","p","e","r","a"," ","a"," ","q","u","e"," ","t","e","r","m","i","n","e"," ","e","l"," ","p","r","o","c","e","s","a","m","i","e","n","t","o",".">>

ChatApology ==
    <<"L","o"," ","s","i","e","n","t","o",","," ","t","u","v","e"," ","u","n"," ","p","r","o","b","l","e","m","a"," ","p","r","o","c","e","s","a","n","d","o"," ","t","u"," ","m","e","n","s","a","j","e","."," ","¿","P","o","d","r","í","a","s"," ","i","n","t","e","n","t","a","r"," ","d","e"," ","n","u","e","v","o","?">>

(* settings.chunk_size *)
chunk_size_setting == 1000

NoRow == [status |-> "<no row>", error_message |-> None]

NewSession(status) == [status |-> status, error_message |-> None]

(* _update_processing_status, on the row of chat_id or on NoRow; when the commit *)
(* fails the change is rolled back and the exception is swallowed               *)
UpdateProcessingStatus(row, status, message, committed) ==
    IF ~committed THEN row
    ELSE IF row /= NoRow
    THEN [row EXCEPT !.status = status,
                     !.error_message = IF status = "failed" THEN message ELSE @]
    ELSE NewSession(status)

ErrorMessage(e) == <<"Error: ", e>>

(* a call of process_documentation that has not run yet: its position and its  *)
(* locals chunks and chunk_ids                                                  *)
NewTask(chat_id) ==
    [pc |-> "queued", chunks |-> <<>>, chunk_ids |-> <<>>, request_chat_id |-> chat_id]

(* what scrape_url may return *)
IngestDocs ==
    { [title |-> <<"T">>, url |-> Url,
       sections |-> << [title |-> <<"S">>, level |-> 1,
                        content |-> << <<"a", ".">> >>,
                        code_blocks |-> << [language |-> <<"p", "y">>,
                                            content |-> <<"x">>] >>] >>],
      [title |-> <<>>, url |-> Url, sections |-> <<>>] }

(* POST /process-documentation: a second row for a chat_id violates the primary *)
(* key, the commit raises and the handler answers 500 without adding a task.     *)
(* Otherwise the row is committed as pending and a background task is added,     *)
(* whatever tasks of the chat_id are still running.                              *)
StartIngestion(c) ==
    /\ sessions[c] = NoRow
    /\ sessions' = [sessions EXCEPT ![c] = NewSession("pending")]
    /\ task' = [task EXCEPT ![c] = Append(@, NewTask(c))]
    /\ UNCHANGED <<messages, collections, chunkRows, ask, turnVars, seg, mg, hp, other, del>>

(* f"{chat_id}_url_{i}" for the first URL that process_multiple_urls is given,  *)
(* where that is a chat followed here                                           *)
UrlChatId(chat_id) ==
    IF chat_id = "c1" THEN "c1_url_0" ELSE "<not followed>"

(* DocumentationService.process_multiple_urls(urls, chat_id, db), followed for   *)
(* its first URL: it awaits process_documentation for the chat_id it derives     *)
(* for that URL; no row is written before, and a row or a running task of the    *)
(* derived chat_id does not stop it.                                             *)
ProcessMultipleUrls(chat_id) ==
    /\ UrlChatId(chat_id) \in ChatIds
    /\ task' = [task EXCEPT ![UrlChatId(chat_id)] = Append(@, NewTask(chat_id))]
    /\ UNCHANGED <<sessions, messages, collections, chunkRows, ask, turnVars, seg, mg, hp,
                   other, del>>

(* process_documentation up to its await of scrape_url *)
IngestBegin(c, t) ==
    /\ task[c][t].pc = "queued"
    /\ \E committed \in BOOLEAN :
          sessions' = [sessions EXCEPT ![c] =
              UpdateProcessingStatus(@, "processing", <<"Procesando">>, committed)]
    /\ task' = [task EXCEPT ![c][t].pc = "scraping"]
    /\ UNCHANGED <<messages, collections, chunkRows, ask, turnVars, seg, mg, hp, other, del, requests>>

(* the except branch of process_documentation, then that of its caller; the     *)
(* locals of the call are gone                                                  *)
IngestFailed(c, t, e) ==
    /\ \E committed \in BOOLEAN :
          sessions' = [sessions EXCEPT ![c] =
              UpdateProcessingStatus(@, "failed", ErrorMessage(e), committed)]
    /\ task' = [task EXCEPT ![c][t] = [NewTask(@.request_chat_id) EXCEPT !.pc = "failed"]]

(* scrape_url returned, or raised; process_document runs on what it returned *)
IngestScraped(c, t) ==
    /\ task[c][t].pc = "scraping"
    /\ \E ok \in BOOLEAN, doc \in IngestDocs :
          IF ok
          THEN /\ task' = [task EXCEPT ![c][t].pc = "add_chunks",
                                       ![c][t].chunks = ProcessDocument(doc, chunk_size_setting)]
               /\ UNCHANGED sessions
          ELSE IngestFailed(c, t, "scrape")
    /\ UNCHANGED <<messages, collections, chunkRows, ask, turnVars, seg, mg, hp, other, del, requests>>

ChunkIds(c, chunks) == [i \in 1..Len(chunks) |-> <<"chunk", c, i - 1>>]

(* collection.add: a record whose id the collection already holds is left out,  *)
(* the others are appended                                                      *)
CollectionAdd(collection, records) ==
    collection \o SelectSeq(records,
                     LAMBDA r : \A j \in 1..Len(collection) : collection[j].id /= r.id)

(* EmbeddingManager.add_chunks *)
IngestAddChunks(c, t) ==
    /\ task[c][t].pc = "add_chunks"
    /\ \E ok \in BOOLEAN :
          IF task[c][t].chunks = <<>>
          THEN /\ task' = [task EXCEPT ![c][t].pc = "save_chunks", ![c][t].chunk_ids = <<>>]
               /\ UNCHANGED <<sessions, collections>>
          ELSE IF ok
               THEN /\ collections' = [collections EXCEPT ![c] =
                           CollectionAdd(@, [i \in 1..Len(task[c][t].chunks) |->
                                    [id |-> ChunkIds(c, task[c][t].chunks)[i],
                                     document |-> task[c][t].chunks[i].content,
                                     metadata |-> task[c][t].chunks[i].metadata]])]
                    /\ task' = [task EXCEPT ![c][t].pc = "save_chunks",
                                            ![c][t].chunk_ids = ChunkIds(c, task[c][t].chunks)]
                    /\ UNCHANGED sessions
               ELSE /\ IngestFailed(c, t, "add")
                    /\ UNCHANGED collections
    /\ UNCHANGED <<messages, chunkRows, ask, turnVars, seg, mg, hp, other, del, requests>>

(* _save_chunks_to_db *)
IngestSaveChunks(c, t) ==
    /\ task[c][t].pc = "save_chunks"
    /\ \E ok \in BOOLEAN :
          IF ok
          THEN /\ chunkRows' = [chunkRows EXCEPT ![c] =
                      @ \o [i \in 1..Len(task[c][t].chunks) |->
                               [content |-> task[c][t].chunks[i].content,
                                embedding_id |-> IF i <= Len(task[c][t].chunk_ids)
                                                 THEN task[c][t].chunk_ids[i]
                                                 ELSE None]]]
               /\ task' = [task EXCEPT ![c][t].pc = "complete"]
               /\ UNCHANGED sessions
          ELSE /\ IngestFailed(c, t, "save")
               /\ UNCHANGED chunkRows
    /\ UNCHANGED <<messages, collections, ask, turnVars, seg, mg, hp, other, del, requests>>

(* the last status update of process_documentation, then its return: the locals *)
(* of the call are gone                                                         *)
IngestComplete(c, t) ==
    /\ task[c][t].pc = "complete"
    /\ \E committed \in BOOLEAN :
          sessions' = [sessions EXCEPT ![c] =
              UpdateProcessingStatus(@, "completed", <<"Documentacion procesada">>, committed)]
    /\ task' = [task EXCEPT ![c][t] = [NewTask(@.request_chat_id) EXCEPT !.pc = "finished"]]
    /\ UNCHANGED <<messages, collections, chunkRows, ask, turnVars, seg, mg, hp, other, del, requests>>

(* The task is cancelled while it awaits scrape_url: CancelledError is raised at *)
(* the await; it is a BaseException, so neither except Exception catches it.     *)
IngestCancel(c, t) ==
    /\ task[c][t].pc = "scraping"
    /\ task' = [task EXCEPT ![c][t].pc = "cancelled"]
    /\ UNCHANGED <<sessions, messages, collections, chunkRows, ask, turnVars, seg, mg, hp, other, del, requests>>

(* every call of process_documentation for the chat has stopped *)
TaskStopped(c) ==
    /\ task[c] /= <<>>
    /\ \A t \in DOMAIN task[c] : task[c][t].pc \in {"finished", "failed", "cancelled"}

(* DELETE /chat/{chat_id}, a handler of the thread pool: delete_chat_history,   *)
(* then delete_documentation, which is delete_collection and then one commit    *)
(* that deletes the chunk rows and the session row. These are three writes, and *)
(* other requests and the ingestion task run between them. Each may fail: the   *)
(* history delete rolls back and returns False; delete_collection swallows its  *)
(* exception; the last commit is rolled back and delete_documentation returns   *)
(* False.                                                                       *)
(* the DELETE requests followed in one behaviour *)
MaxDeletes == 1

NoDelete == [pc |-> "idle", chat_id |-> "", chat_deleted |-> FALSE, n |-> 0]

(* delete_chat_history *)
DeleteChatHistory(c) ==
    /\ del.pc = "idle"
    /\ del.n < MaxDeletes
    /\ \E ok \in BOOLEAN :
          /\ messages' = [messages EXCEPT ![c] = IF ok THEN <<>> ELSE @]
          /\ del' = [pc |-> "collection", chat_id |-> c, chat_deleted |-> ok, n |-> del.n + 1]
    /\ UNCHANGED <<sessions, collections, chunkRows, task, ask, other, turnVars, seg, mg, hp>>

(* delete_documentation: embedding_manager.delete_collection *)
DeleteCollection ==
    /\ del.pc = "collection"
    /\ \E ok \in BOOLEAN :
          collections' = [collections EXCEPT ![del.chat_id] = IF ok THEN <<>> ELSE @]
    /\ del' = [del EXCEPT !.pc = "rows"]
    /\ UNCHANGED <<sessions, messages, chunkRows, task, ask, other, turnVars, seg, mg, hp, requests>>

(* delete_documentation: the chunk rows and the session row, one commit; then   *)
(* the handler answers with chat_deleted and documentation_deleted = ok         *)
DeleteRowsOutcome(ok) ==
    /\ del.pc = "rows"
    /\ chunkRows' = [chunkRows EXCEPT ![del.chat_id] = IF ok THEN <<>> ELSE @]
    /\ sessions' = [sessions EXCEPT ![del.chat_id] = IF ok THEN NoRow ELSE @]
    /\ del' = [NoDelete EXCEPT !.n = del.n]
    /\ UNCHANGED <<messages, collections, task, ask, other, turnVars, seg, mg, hp, requests>>

DeleteRows == \E ok \in BOOLEAN : DeleteRowsOutcome(ok)

----------------------------------------------------------------------------
(* ChatService.process_chat_message *)

(* the session check without the test of the status *)
SessionReadyAnyRow(row) == row /= NoRow

SessionReady(row) == row /= NoRow /\ row.status = "completed"

NotReadyResult(c) ==
    [kind |-> "not_ready",
     chat_id |-> c,
     response |-> NotReadyText,
     intent |-> "error",
     confidence |-> 0,
     needs_clarification |-> FALSE,
     error |-> "Documentation not processed"]

ChatErrorResult(c) ==
    [kind |-> "chat_error",
     chat_id |-> c,
     response |-> ChatApology,
     intent |-> "error",
     confidence |-> 0,
     needs_clarification |-> FALSE]

(* _get_chat_history: the rows of the chat, oldest first *)
GetChatHistory(rows) ==
    [i \in 1..Len(rows) |-> HistoryRow(rows[i].message, rows[i].response, rows[i].intent)]

IdleState == NewState("", <<>>, <<>>)

(* status and turns_before record what the call found: the row's status and the *)
(* number of turns the chat held                                                *)
NoAsk == [pc |-> "idle", chat_id |-> "", message |-> <<>>, status |-> "",
          turns_before |-> 0, result |-> NoResult]

(* the second calls followed in one behaviour *)
MaxOtherCalls == 1

NoOther ==
    [pc |-> "idle", chat_id |-> "", message |-> <<>>, chat_history |-> <<>>,
     agent_response |-> NoResult, n |-> 0]

AskUtterances == { <<>>, <<"f","u","n","c","t","i","o","n"," ","e","x","a","m","p","l","e">> }

(* what the second call says *)
OtherUtterances == { <<"h","e","l","l","o">> }

(* the status a call records when its query of the session row raised *)
QueryRaised == "<query raised>"

(* the calls on the chat that are past the session check and have not saved yet *)
InFlight(c) ==
    (IF ask.pc \in {"history", "agent"} /\ ask.chat_id = c THEN 1 ELSE 0)
        + (IF other.pc \in {"history", "agent", "save"} /\ other.chat_id = c THEN 1 ELSE 0)

(* POST /chat/{chat_id}, a handler of the thread pool. process_chat_message up  *)
(* to its session check: the query of the session row raises and the call       *)
(* answers from its except branch, or the row is missing or not completed and   *)
(* the call answers that the documentation is not processed, or the call goes   *)
(* on to read the history.                                                      *)
AskBegin(c) ==
    /\ ask.pc = "idle"
    /\ stage = "idle"
    /\ Len(messages[c]) + InFlight(c) < MaxTurns
    /\ \E u \in AskUtterances, found \in BOOLEAN :
          ask' = [pc |-> IF found /\ SessionReady(sessions[c]) THEN "history" ELSE "returned",
                  chat_id |-> c,
                  message |-> u,
                  status |-> IF found THEN sessions[c].status ELSE QueryRaised,
                  turns_before |-> Len(messages[c]),
                  result |-> IF ~found THEN ChatErrorResult(c)
                             ELSE IF ~SessionReady(sessions[c]) THEN NotReadyResult(c)
                             ELSE NoResult]
    /\ UNCHANGED <<sessions, messages, collections, chunkRows, task, other, del, turnVars,
                   seg, mg, hp>>

(* _get_chat_history, which answers [] when its query raises, then the State    *)
(* and the call of the agent                                                    *)
AskHistory ==
    /\ ask.pc = "history"
    /\ \E ok \in BOOLEAN :
          LET chat_history == IF ok THEN GetChatHistory(messages[ask.chat_id]) ELSE <<>>
          IN  /\ st' = NewState(ask.chat_id, ask.message, chat_history)
              /\ io' = <<[node |-> "start", out |-> <<ask.message, chat_history>>]>>
    /\ ask' = [ask EXCEPT !.pc = "agent", !.turns_before = Len(messages[ask.chat_id])]
    /\ stage' = "input"
    /\ calls' = {"agent"}
    /\ path' = <<>>
    /\ result' = NoResult
    /\ UNCHANGED <<sessions, messages, collections, chunkRows, task, other, del, seg, mg, hp, requests>>

(* process_message on the graph as built, for a call that is not followed node  *)
(* by node: whatever the nodes up to the router make of the State, the router's *)
(* value is no key of the path map (RouteAsBuilt), app.invoke raises and the    *)
(* except branch answers                                                        *)
AgentAsBuilt(chat_id, user_message, chat_history) ==
    ProcessMessageError(NewState(chat_id, user_message, chat_history))

(* A second POST /chat/{chat_id}, served by another thread while the first is   *)
(* in flight or not: its session check, when it finds the session completed     *)
(* (otherwise it answers at once and changes nothing)                           *)
OtherBegin(c) ==
    /\ other.pc = "idle"
    /\ other.n < MaxOtherCalls
    /\ Len(messages[c]) + InFlight(c) < MaxTurns
    /\ SessionReady(sessions[c])
    /\ \E u \in OtherUtterances :
          other' = [NoOther EXCEPT !.pc = "history", !.chat_id = c, !.message = u,
                                   !.n = other.n + 1]
    /\ UNCHANGED <<sessions, messages, collections, chunkRows, task, ask, del, turnVars,
                   seg, mg, hp>>

(* its _get_chat_history: the rows the chat holds now, or [] when the query      *)
(* raised                                                                       *)
OtherHistory ==
    /\ other.pc = "history"
    /\ \E ok \in BOOLEAN :
          other' = [other EXCEPT !.pc = "agent",
                                 !.chat_history = IF ok THEN GetChatHistory(messages[other.chat_id])
                                                  ELSE <<>>]
    /\ UNCHANGED <<sessions, messages, collections, chunkRows, task, ask, del, turnVars,
                   seg, mg, hp, requests>>

(* its process_message, which returns after the wait for the completion service *)
OtherAgent ==
    /\ other.pc = "agent"
    /\ other' = [other EXCEPT !.pc = "save",
                              !.agent_response = AgentAsBuilt(other.chat_id, other.message,
                                                              other.chat_history)]
    /\ UNCHANGED <<sessions, messages, collections, chunkRows, task, ask, del, turnVars,
                   seg, mg, hp, requests>>

(* its _save_chat_message, then its return *)
OtherSave ==
    /\ other.pc = "save"
    /\ \E ok \in BOOLEAN :
          messages' = [messages EXCEPT ![other.chat_id] =
              IF ok THEN Append(@, [message |-> other.message,
                                    response |-> other.agent_response.response,
                                    intent |-> other.agent_response.intent])
              ELSE @]
    /\ other' = [NoOther EXCEPT !.n = other.n]
    /\ UNCHANGED <<sessions, collections, chunkRows, task, ask, del, turnVars, seg, mg, hp, requests>>

(* the save with the utterance of the State, as the nodes left it *)
AskSaveStateUtterance ==
    /\ ask.pc = "agent"
    /\ stage = "done"
    /\ \E ok \in BOOLEAN :
          IF ok /\ result.response /= None
          THEN /\ messages' = [messages EXCEPT ![ask.chat_id] =
                      Append(@, [message |-> st.user_message,
                                 response |-> result.response,
                                 intent |-> result.intent])]
               /\ ask' = [ask EXCEPT !.pc = "returned", !.result = result]
          ELSE /\ ask' = [ask EXCEPT !.pc = "returned",
                                     !.result = ChatErrorResult(ask.chat_id)]
               /\ UNCHANGED messages
    /\ calls' = calls \cup {"save"}
    /\ UNCHANGED <<sessions, collections, chunkRows, task, stage, st, result, path, io, seg, mg, hp, other, del, requests>>

(* _save_chat_message, then the return; a failed commit raises into the except branch *)
AskSave ==
    /\ ask.pc = "agent"
    /\ stage = "done"
    /\ \E ok \in BOOLEAN :
          IF ok /\ result.response /= None
          THEN /\ messages' = [messages EXCEPT ![ask.chat_id] =
                      Append(@, [message |-> ask.message,
                                 response |-> result.response,
                                 intent |-> result.intent])]
               /\ ask' = [ask EXCEPT !.pc = "returned", !.result = result]
          ELSE /\ ask' = [ask EXCEPT !.pc = "returned",
                                     !.result = ChatErrorResult(ask.chat_id)]
               /\ UNCHANGED messages
    /\ calls' = calls \cup {"save"}
    /\ UNCHANGED <<sessions, collections, chunkRows, task, stage, st, result, path, io, seg, mg, hp, other, del, requests>>

AskReturn ==
    /\ ask.pc = "returned"
    /\ ask' = NoAsk
    /\ stage' = "idle"
    /\ result' = NoResult
    /\ calls' = {}
    /\ path' = <<>>
    /\ io' = <<>>
    /\ st' = IdleState
    /\ UNCHANGED <<sessions, messages, collections, chunkRows, task, seg, mg, hp, other, del, requests>>

----------------------------------------------------------------------------
(* TextProcessor.process_document and merge_overlapping_chunks on their own *)

MaxChunkSize == 3
MaxLineLen == 2
MaxLines == 2
MaxMergeChunks == 3

SegAlphabet == {"a", " ", ".", Ctrl}

SegLines == UNION { [1..k -> SegAlphabet] : k \in 0..MaxLineLen }

SegContents == UNION { [1..k -> SegLines] : k \in 0..MaxLines }

SegCodeBlocks ==
    { <<>>,
      << [language |-> <<"p","y">>, content |-> <<>>] >>,
      << [language |-> <<"t","e","x","t">>, content |-> <<"x","=","1",";","y">>] >> }

SegDocs ==
    { [title |-> ti, url |-> Url,
       sections |-> << [title |-> se, level |-> 1, content |-> co, code_blocks |-> cb] >>] :
        ti \in {<<>>, <<"T">>}, se \in {<<>>, <<"S">>},
        co \in SegContents, cb \in SegCodeBlocks }

SegmentDocument ==
    /\ seg.pc = "idle"
    /\ \E cs \in 1..MaxChunkSize, d \in SegDocs :
          seg' = [pc |-> "done", chunk_size |-> cs, document |-> d,
                  chunks |-> ProcessDocument(d, cs)]
    /\ UNCHANGED <<sysVars, turnVars, mg, hp>>

Rep(c, n) == [i \in 1..n |-> c]

MergeTexts ==
    { Rep("a", min_overlap),
      Rep("a", min_overlap) \o <<"b">>,
      <<"b">> \o Rep("a", min_overlap),
      Rep("a", min_overlap - 1),
      <<"b">> }

MergeMetadata == { [type |-> "text_content"], [type |-> "code_block", language |-> "py"] }

(* which chunks hold one dict object: the chunk i holds the object refs[i], and *)
(* the objects are numbered in the order of their first chunk                   *)
MergeRefs(k) ==
    { refs \in [1..k -> 1..k] :
        \A i \in 1..k : refs[i] <= 1 + MaxOf({0} \cup { refs[j] : j \in 1..(i - 1) }) }

(* the chunks of an input: chunk i has the content texts[i] and holds the dict   *)
(* object refs[i]                                                               *)
MergeInput(texts, refs, dicts) ==
    [chunks |-> [i \in DOMAIN texts |-> [content |-> texts[i], metadata |-> refs[i]]],
     dicts |-> dicts]

(* once = merge_overlapping_chunks(chunks); twice = merge_overlapping_chunks(once): *)
(* the value of once when the first call returned, the value of twice, and the  *)
(* values of the caller's chunks and of once after the calls                    *)
MergeTwice ==
    /\ mg.pc = "idle"
    /\ \E k \in 0..MaxMergeChunks :
       \E refs \in MergeRefs(k), texts \in [1..k -> MergeTexts] :
       \E dicts \in [1..MaxOf({0} \cup Range(refs)) -> MergeMetadata] :
          LET s == MergeInput(texts, refs, dicts)
              first == MergeOverlappingChunks(s.chunks, s.dicts)
              second == MergeOverlappingChunks(first.chunks, first.dicts)
          IN  mg' = [pc |-> "done",
                     input |-> Deref(s.chunks, s.dicts),
                     shared |-> { <<i, j>> \in (1..Len(s.chunks)) \X (1..Len(s.chunks)) :
                                    i < j /\ s.chunks[i].metadata = s.chunks[j].metadata },
                     once |-> Deref(first.chunks, first.dicts),
                     input_after |-> Deref(s.chunks, first.dicts),
                     twice |-> Deref(second.chunks, second.dicts),
                     once_after |-> Deref(first.chunks, second.dicts)]
    /\ UNCHANGED <<sysVars, turnVars, seg, hp>>

----------------------------------------------------------------------------
(* utils/helpers.py *)

(* the characters urlsplit strips from the left of the url (x00-x20), among     *)
(* those used here, and the ones it removes everywhere; x7F is not one of them  *)
UrlLeadingStripped == {" ", "\t", "\n", "\r"}

UrlRemoved == {"\t", "\r", "\n"}

SchemeChars == LowerLetters \cup UpperLetters \cup Digits \cup {"+", "-", "."}

RECURSIVE UrlLStrip(_)
UrlLStrip(url) ==
    IF url /= <<>> /\ Head(url) \in UrlLeadingStripped THEN UrlLStrip(Tail(url)) ELSE url

UrlClean(url) == SelectSeq(UrlLStrip(url), LAMBDA ch : ch \notin UrlRemoved)

(* url.find(c): the first position of the character at or after start, 0 when   *)
(* there is none                                                                *)
FindChar(t, c, start) ==
    IF \E i \in start..Len(t) : t[i] = c
    THEN CHOOSE i \in start..Len(t) : t[i] = c /\ \A j \in start..(i - 1) : t[j] /= c
    ELSE 0

HexDigits == Digits \cup {"a","b","c","d","e","f","A","B","C","D","E","F"}

DigitValue ==
    [c \in Digits |-> CHOOSE n \in 0..9 : <<"0","1","2","3","4","5","6","7","8","9">>[n + 1] = c]

(* ipaddress.IPv4Address on one octet: decimal digits, at most three, no        *)
(* leading zero, at most 255                                                    *)
IsOctet(p) ==
    /\ Len(p) \in 1..3
    /\ \A i \in 1..Len(p) : p[i] \in Digits
    /\ (Len(p) > 1 => p[1] /= "0")
    /\ LET v(i) == IF i <= Len(p) THEN DigitValue[p[i]] ELSE 0
       IN  (IF Len(p) = 3 THEN 100 * v(1) + 10 * v(2) + v(3)
            ELSE IF Len(p) = 2 THEN 10 * v(1) + v(2) ELSE v(1)) <= 255

IsIPv4(t) ==
    LET octets == SplitOn(t, ".", <<>>)
    IN  Len(octets) = 4 /\ \A i \in 1..4 : IsOctet(octets[i])

(* IPv6Address._parse_hextet *)
IsHextet(p) == Len(p) \in 1..4 /\ \A i \in 1..Len(p) : p[i] \in HexDigits

(* ipaddress.IPv6Address accepts the text: _split_scope_id and _ip_int_from_str *)
IsIPv6(t) ==
    LET pct == FindChar(t, "%", 1)
        addr == IF pct = 0 THEN t ELSE SubSeq(t, 1, pct - 1)
        scope == IF pct = 0 THEN <<>> ELSE From(t, pct + 1)
        given == SplitOn(addr, ":", <<>>)
        tailed == Len(given) >= 3 /\ "." \in Range(given[Len(given)])
        parts == IF tailed
                 THEN SubSeq(given, 1, Len(given) - 1) \o << <<"0">>, <<"0">> >>
                 ELSE given
        n == Len(parts)
        skips == { i \in 2..(n - 1) : parts[i] = <<>> }
        skip_index == CHOOSE i \in skips : TRUE
        parts_hi == IF parts[1] = <<>> THEN skip_index - 2 ELSE skip_index - 1
        parts_lo == IF parts[n] = <<>> THEN n - skip_index - 1 ELSE n - skip_index
    IN  /\ pct = 0 \/ (scope /= <<>> /\ "%" \notin Range(scope))
        /\ addr /= <<>>
        /\ Len(given) >= 3
        /\ tailed => IsIPv4(given[Len(given)])
        /\ n <= 9
        /\ Cardinality(skips) <= 1
        /\ IF skips /= {}
           THEN /\ parts[1] = <<>> => skip_index = 2
                /\ parts[n] = <<>> => skip_index = n - 1
                /\ 8 - (parts_hi + parts_lo) >= 1
                /\ \A i \in 1..parts_hi : IsHextet(parts[i])
                /\ \A i \in (n - parts_lo + 1)..n : IsHextet(parts[i])
           ELSE n = 8 /\ \A i \in 1..n : IsHextet(parts[i])

(* urllib.parse._check_bracketed_host does not raise: an IPvFuture text         *)
(* v<hex>.<rest> or an IPv6 address                                             *)
BracketedHostOk(hostname) ==
    IF hostname /= <<>> /\ hostname[1] = "v"
    THEN \E d \in 3..(Len(hostname) - 1) :
            /\ hostname[d] = "."
            /\ \A i \in 2..(d - 1) : hostname[i] \in HexDigits
    ELSE IsIPv6(hostname)

(* netloc.partition('[')[2].partition(']')[0] *)
BracketedHost(netloc) ==
    LET open == FindChar(netloc, "[", 1)
        after == From(netloc, open + 1)
        close == FindChar(after, "]", 1)
    IN  IF close = 0 THEN after ELSE SubSeq(after, 1, close - 1)

(* urllib.parse.urlparse as validate_url and extract_domain use it: the scheme, *)
(* the netloc, and whether the call raised (a netloc with one square bracket    *)
(* and not the other, or with a bracketed host that is no IPv6 or IPvFuture     *)
(* address); the urls are ASCII, so _checknetloc returns at once                *)
UrlParse(given) ==
    LET url == UrlClean(given)
        i == FindChar(url, ":", 1)
        hasScheme == /\ i > 1
                     /\ url[1] \in LowerLetters \cup UpperLetters
                     /\ \A k \in 1..(i - 1) : url[k] \in SchemeChars
        scheme == IF hasScheme THEN Lower(SubSeq(url, 1, i - 1)) ELSE <<>>
        rest == IF hasScheme THEN From(url, i + 1) ELSE url
        ends == { FindChar(rest, c, 3) : c \in {"/", "?", "#"} } \ {0}
        delim == IF ends = {} THEN Len(rest) + 1
                 ELSE CHOOSE e \in ends : \A f \in ends : e <= f
        netloc == IF Take(rest, 2) = <<"/", "/">> THEN SubSeq(rest, 3, delim - 1) ELSE <<>>
        opens == "[" \in Range(netloc)
        closes == "]" \in Range(netloc)
    IN  [scheme |-> scheme,
         netloc |-> netloc,
         raised |-> \/ opens /= closes
                    \/ opens /\ closes /\ ~BracketedHostOk(BracketedHost(netloc))]

(* all([result.scheme, result.netloc]) *)
ValidateUrl(url) ==
    IF UrlParse(url).raised THEN FALSE
    ELSE UrlParse(url).scheme /= <<>> /\ UrlParse(url).netloc /= <<>>

ExtractDomain(url) ==
    IF UrlParse(url).raised THEN None ELSE UrlParse(url).netloc

FormatCodeBlock(code, language) ==
    Fence \o language \o <<"\n">> \o code \o <<"\n">> \o Fence

ExtractCodeBlocks(text) ==
    LET matches == FindCodeBlocks(text, 1)
    IN  [i \in 1..Len(matches) |->
            [language |-> IF matches[i].language /= <<>> THEN matches[i].language
                          ELSE <<"t","e","x","t">>,
             code |-> Strip(matches[i].code)]]

(* the calls of the helpers: every text over an alphabet up to a length *)
TextsUpTo(alphabet, n) == UNION { [1..k -> alphabet] : k \in 0..n }

MaxCodeLen == 3

CodeTexts == TextsUpTo({"a", " ", "\n", Tick}, MaxCodeLen)

LanguageTags == { <<"p","y">>, <<"t","e","x","t">>, <<>>, <<"c","+">> }

Urls ==
    { <<>>,
      <<"n","o","t","-","a","-","u","r","l">>,
      <<"i","n","v","a","l","i","d","-","u","r","l">>,
      <<"f","t","p",":","/","/","i","n","v","a","l","i","d">>,
      <<"h","t","t","p",":","/","/","e","x","a","m","p","l","e",".","c","o","m">>,
      <<"h","t","t","p","s",":","/","/","a","p","i",".","g","i","t","h","u","b",".","c","o","m","/","v","3">>,
      <<"h","t","t","p","s",":","/","/","d","o","c","s",".","p","y","t","h","o","n",".","o","r","g","/","3","/","t","u","t","o","r","i","a","l","/">>,
      <<"h","t","t","p",":","/","/">>,
      <<"/","/","e","x","a","m","p","l","e",".","c","o","m">>,
      <<"h","t","t","p",":","e","x","a","m","p","l","e",".","c","o","m">>,
      <<"h","t","t","p",":","/","/","[",":",":","1">>,
      <<"m","a","i","l","t","o",":","a","@","b",".","c">>,
      <<"H","T","T","P","S",":","/","/","A",".","b","/","c","?","d","#","e">>,
      <<" ","h","t","t","p",":","/","/","a",".","b">>,
      <<"1","h","t","t","p",":","/","/","a",".","b">>,
      <<"h","t","t","p",":","/","/","a",".","b","?","x">>,
      <<"a",".","b","/","c",":","d">>,
      <<":","/","/","a",".","b">>,
      <<"h","t","t","p",":","/","/","[",":",":","1","]">>,
      <<"h","t","t","p",":","/","/","[",":",":","1","]",":","8","0","/","x">>,
      <<"h","t","t","p",":","/","/","[","1",":","2",":",":","1",".","2",".","3",".","4","%","e","]">>,
      <<"h","t","t","p",":","/","/","[","v","1",".","a","]">>,
      <<"h","t","t","p",":","/","/","[","x","]">>,
      <<"h","t","t","p",":","/","/","[","]">>,
      <<"h","t","t","p",":","/","/","[","1",".","2",".","3",".","4","]">>,
      <<"h","t","t","p",":","/","/","]","a","[">>,
      <<Ctrl,"h","t","t","p",":","/","/","a",".","b">>,
      <<"\n","h","t","\t","t","p",":","/","/","a",".","b">> }

(* extract_code_blocks(format_code_block(code, language)) *)
CodeBlockRoundTrip ==
    /\ hp.fn = "idle"
    /\ \E code \in CodeTexts, language \in LanguageTags :
          hp' = [fn |-> "code_block_round_trip", code |-> code, language |-> language,
                 formatted |-> FormatCodeBlock(code, language),
                 out |-> ExtractCodeBlocks(FormatCodeBlock(code, language))]
    /\ UNCHANGED <<sysVars, turnVars, seg, mg>>

ValidateUrlCall ==
    /\ hp.fn = "idle"
    /\ \E url \in Urls :
          hp' = [fn |-> "validate_url", url |-> url, out |-> ValidateUrl(url)]
    /\ UNCHANGED <<sysVars, turnVars, seg, mg>>

ExtractDomainCall ==
    /\ hp.fn = "idle"
    /\ \E url \in Urls :
          hp' = [fn |-> "extract_domain", url |-> url, out |-> ExtractDomain(url)]
    /\ UNCHANGED <<sysVars, turnVars, seg, mg>>

----------------------------------------------------------------------------
(* The fragment store and the history table, operation by operation *)

(* get_or_create_collection: the collection named chat_id, empty when new *)
GetCollection(c) == collections[c]

(* n_results of the calls *)
NResults == {1, 2}

(* collection.query: the min(n, count) nearest documents of the collection, in  *)
(* the order of their distances; which ones they are depends on the embeddings  *)
QueryAnswers(coll, n) ==
    LET k == Min(n, Len(coll))
    IN  { [i \in 1..k |-> [id |-> coll[pick[i]].id,
                            content |-> coll[pick[i]].document,
                            metadata |-> coll[pick[i]].metadata,
                            distance |-> dist[i]]] :
            pick \in { f \in [1..k -> 1..Len(coll)] :
                          \A i, j \in 1..k : i /= j => f[i] /= f[j] },
            dist \in { g \in [1..k -> Distances] :
                          \A i \in 1..(k - 1) : g[i] <= g[i + 1] } }

(* EmbeddingManager.search_similar(chat_id, query, n_results) *)
SearchSimilarCall(c) ==
    /\ hp.fn = "idle"
    /\ \E n \in NResults, ok \in BOOLEAN :
          \E raw \in QueryAnswers(GetCollection(c), n) :
              hp' = [fn |-> "search_similar", chat |-> c, n_results |-> n,
                     raw |-> IF ok THEN raw ELSE <<>>,
                     out |-> FormatResults(IF ok THEN StoreAnswer(raw) ELSE StoreFail)]
    /\ UNCHANGED <<sysVars, turnVars, seg, mg>>

(* what update_chunk is given *)
UpdateContents == { <<"n","e","w">> }

UpdateMetadatas == { [type |-> "text_content"] }

(* the ids update_chunk is given: the first id of the collection of c1, which   *)
(* is the id of no document of another collection, and the id of no document    *)
UpdateIds == { <<"chunk", "c1", 0>>, <<"chunk", "", 0>> }

(* collection.update on the metadata of a document: the keys given take the new *)
(* values, the other keys of the document keep theirs                           *)
UpdatedMetadata(metadata, new_metadata) ==
    [k \in DOMAIN metadata \cup DOMAIN new_metadata |->
        IF k \in DOMAIN new_metadata THEN new_metadata[k] ELSE metadata[k]]

(* EmbeddingManager.update_chunk(chat_id, chunk_id, new_content, new_metadata): *)
(* collection.update gives the document of that id in the collection of chat_id *)
(* the new content and updates its metadata, and leaves the collection as it is *)
(* when it has no document of that id; when it raises, update_chunk returns     *)
(* False                                                                        *)
UpdateChunk(c) ==
    /\ \E chunk_id \in UpdateIds,
          new_content \in UpdateContents, new_metadata \in UpdateMetadatas, ok \in BOOLEAN :
          collections' = [collections EXCEPT ![c] =
              [i \in 1..Len(@) |->
                  IF ok /\ @[i].id = chunk_id
                  THEN [@[i] EXCEPT !.document = new_content,
                                    !.metadata = UpdatedMetadata(@, new_metadata)]
                  ELSE @[i]]]
    /\ UNCHANGED <<sessions, messages, chunkRows, task, ask, other, del, requests, turnVars,
                   seg, mg, hp>>

(* ChatService._save_chat_message: the row is added, or the commit raises and   *)
(* the session is rolled back                                                   *)
SaveChatMessage(c, u) ==
    /\ Len(messages[c]) < MaxTurns
    /\ \E ok \in BOOLEAN :
          /\ messages' = [messages EXCEPT ![c] =
                  IF ok THEN Append(@, [message |-> u, response |-> ProcessApology,
                                        intent |-> "error"])
                  ELSE @]
    /\ UNCHANGED <<sessions, collections, chunkRows, task, ask, turnVars, seg, mg, hp, other, del, requests>>

(* ChatService._get_chat_history as a turn calls it: the rows of the chat, or   *)
(* [] when the query raises                                                     *)
GetChatHistoryCall(c) ==
    /\ hp.fn = "idle"
    /\ \E ok \in BOOLEAN :
          hp' = [fn |-> "_get_chat_history", chat |-> c, rows |-> messages[c], ok |-> ok,
                 out |-> IF ok THEN GetChatHistory(messages[c]) ELSE <<>>]
    /\ UNCHANGED <<sysVars, turnVars, seg, mg>>

Reverse(s) == [i \in 1..Len(s) |-> s[Len(s) + 1 - i]]

(* limit=None *)
NoLimit == -1

(* ChatService.get_chat_history: newest first, cut by the limit when the limit  *)
(* is truthy, then reversed                                                     *)
ReadChatHistory(rows, limit) ==
    LET newest_first == Reverse(rows)
        fetched == IF limit /= NoLimit /\ limit /= 0
                   THEN Take(newest_first, limit)
                   ELSE newest_first
    IN  Reverse(fetched)

Limits == {NoLimit} \cup 0..(MaxTurns + 1)

(* GET /chat-history/{chat_id}?limit=: the messages of get_chat_history, which  *)
(* are [] when its query raises                                                 *)
ReadChatHistoryCall(c) ==
    /\ hp.fn = "idle"
    /\ \E limit \in Limits, ok \in BOOLEAN :
          hp' = [fn |-> "get_chat_history", chat |-> c, limit |-> limit,
                 rows |-> messages[c], ok |-> ok,
                 out |-> IF ok THEN ReadChatHistory(messages[c], limit) ELSE <<>>]
    /\ UNCHANGED <<sysVars, turnVars, seg, mg>>

----------------------------------------------------------------------------
(* RAGNode.run on the fragment store of a chat *)

(* collection.query for one query text: every document of the collection has a  *)
(* distance to the text; the answer is the min(n, count) nearest of the          *)
(* documents that pass the filter, nearest first, ties in any order              *)
NearestAnswers(coll, passing, dist, n) ==
    LET k == Min(n, Cardinality(passing))
    IN  { [i \in 1..k |-> [id |-> coll[pick[i]].id,
                            content |-> coll[pick[i]].document,
                            metadata |-> coll[pick[i]].metadata,
                            distance |-> dist[pick[i]]]] :
            pick \in { f \in [1..k -> passing] :
                          /\ \A i, j \in 1..k : i /= j => f[i] /= f[j]
                          /\ \A i \in 1..(k - 1) : dist[f[i]] <= dist[f[i + 1]]
                          /\ \A x \in passing :
                                (\A i \in 1..k : f[i] /= x) =>
                                    \A i \in 1..k : dist[f[i]] <= dist[x] } }

(* a where filter {key: value} of collection.query: the documents whose         *)
(* metadata dict has the key, with the value                                    *)
WherePasses(coll, key, value) ==
    { i \in 1..Len(coll) :
        key \in DOMAIN coll[i].metadata /\ coll[i].metadata[key] = value }

(* the documents with the type code_block *)
CodeBlocksByType(coll) == WherePasses(coll, "type", "code_block")

(* where_filter = {"metadata.type": "code_block"}: the key is this literal text *)
CodeBlocksOf(coll) == WherePasses(coll, "metadata.type", "code_block")

RetrievalIntents == {"code_question", "general_question"}

(* one run of the node in a turn on the completed session c: search_similar     *)
(* with n_results=3, then search_code_blocks with its n_results=5, each of      *)
(* which may fail, for the same query text                                      *)
RetrievalCall(c) ==
    /\ hp.fn = "idle"
    /\ SessionReady(sessions[c])
    /\ \E intent \in RetrievalIntents, general_ok, code_ok \in BOOLEAN :
          \E dist \in [1..Len(GetCollection(c)) -> Distances] :
              \E general \in NearestAnswers(GetCollection(c), 1..Len(GetCollection(c)), dist, 3),
                 code \in NearestAnswers(GetCollection(c), CodeBlocksOf(GetCollection(c)), dist, 5) :
                  LET general_raw == IF general_ok THEN StoreAnswer(general) ELSE StoreFail
                      code_raw == IF code_ok THEN StoreAnswer(code) ELSE StoreFail
                      s == [NewState(c, <<"f","u","n","c","t","i","o","n">>, <<>>)
                               EXCEPT !.intent = intent]
                  IN  hp' = [fn |-> "rag", chat |-> c, intent |-> intent,
                             general_ok |-> general_ok, code_ok |-> code_ok,
                             stored |-> GetCollection(c), dist |-> dist,
                             general |-> general_raw.hits,
                             code |-> IF intent = "code_question" THEN code_raw.hits ELSE <<>>,
                             out |-> RAGNodeRun(s, general_raw, code_raw)]
    /\ UNCHANGED <<sysVars, turnVars, seg, mg>>

----------------------------------------------------------------------------
(* ContextBuilderNode._build_context_from_history on its own *)

MaxHistoryLen == 5

(* answers with no key line, one, three, none at all, and one whose first line  *)
(* has 200 characters and whose second has 199                                  *)
ContextAnswers ==
    { <<"o","k">>,
      <<"i","t"," ","u","s","e","s"," ","x","\n","o","k">>,
      <<"e","s"," ","a","\n","\n"," ","S","o","n"," ","b"," ","\n","n","o","\n","e","s"," ","c">>,
      <<>>,
      <<"e","s">> \o Rep("x", 198) \o <<"\n">> \o <<"e","s">> \o Rep("y", 197) }

ContextRows == { HistoryRow(<<"h","e","l","l","o">>, a, "general_question") : a \in ContextAnswers }

ContextHistories == UNION { [1..n -> ContextRows] : n \in 0..MaxHistoryLen }

BuildContextCall ==
    /\ hp.fn = "idle"
    /\ \E h \in ContextHistories :
          hp' = [fn |-> "_build_context_from_history", history |-> h,
                 out |-> BuildContextFromHistory(h)]
    /\ UNCHANGED <<sysVars, turnVars, seg, mg>>

----------------------------------------------------------------------------
(* The run methods of the node objects, each called on its own on a State. No   *)
(* call of process_message reaches a node behind the router (RouteAsBuilt), so  *)
(* what these methods do is checked call by call: the State given to a method   *)
(* is one that the methods before it in the add_edge order return.              *)

(* the State that input_node and intent_analysis_node leave *)
RoutedState(u, h, llm) ==
    IntentAnalysisNodeRun(InputNodeRun(NewState("c1", u, h)), llm)

RoutedStates ==
    { RoutedState(u, h, llm) : u \in Utterances, h \in Histories, llm \in LLMOutcomes }

(* the States given to RAGNode.run: as the router is given them, or as          *)
(* ContextBuilderNode.run returns them                                          *)
RetrievalInputs ==
    RoutedStates \cup { ContextBuilderNodeRun(s) : s \in RoutedStates }

(* the answers of the store to the code-filtered query of a State *)
CodeOutcomesFor(s) ==
    IF s.intent = "code_question" THEN CodeOutcomes ELSE {StoreAnswer(<<>>)}

ContextBuilderNodeCall ==
    /\ hp.fn = "idle"
    /\ \E s \in RoutedStates :
          hp' = [fn |-> "ContextBuilderNode.run", state |-> s,
                 out |-> ContextBuilderNodeRun(s)]
    /\ UNCHANGED <<sysVars, turnVars, seg, mg>>

RAGNodeCall ==
    /\ hp.fn = "idle"
    /\ \E s \in RetrievalInputs :
          \E g \in GeneralOutcomes, c \in CodeOutcomesFor(s) :
              hp' = [fn |-> "RAGNode.run", state |-> s, general |-> g, code |-> c,
                     out |-> RAGNodeRun(s, g, c)]
    /\ UNCHANGED <<sysVars, turnVars, seg, mg>>

ResponseGenerationNodeCall ==
    /\ hp.fn = "idle"
    /\ \E r \in RetrievalInputs :
          \E g \in GeneralOutcomes, c \in CodeOutcomesFor(r), a \in AnswerOutcomes :
              \E s \in {RAGNodeRun(r, g, c)} :
                  hp' = [fn |-> "ResponseGenerationNode.run", state |-> s, llm |-> a,
                         out |-> ResponseGenerationNodeRun(s, a)]
    /\ UNCHANGED <<sysVars, turnVars, seg, mg>>

CodeFormattingNodeCall ==
    /\ hp.fn = "idle"
    /\ \E r \in RetrievalInputs :
          \E g \in GeneralOutcomes, c \in CodeOutcomesFor(r), a \in AnswerOutcomes :
              \E s \in {ResponseGenerationNodeRun(RAGNodeRun(r, g, c), a)} :
                  hp' = [fn |-> "CodeFormattingNode.run", state |-> s,
                         out |-> CodeFormattingNodeRun(s)]
    /\ UNCHANGED <<sysVars, turnVars, seg, mg>>

MemoryNodeCall ==
    /\ hp.fn = "idle"
    /\ \E r \in RetrievalInputs :
          \E g \in GeneralOutcomes, c \in CodeOutcomesFor(r), a \in AnswerOutcomes :
              \E s \in {CodeFormattingNodeRun(
                            ResponseGenerationNodeRun(RAGNodeRun(r, g, c), a))} :
                  hp' = [fn |-> "MemoryNode.run", state |-> s,
                         out |-> MemoryNodeRun(s)]
    /\ UNCHANGED <<sysVars, turnVars, seg, mg>>

ClarificationNodeCall ==
    /\ hp.fn = "idle"
    /\ \E s \in RoutedStates, a \in AnswerOutcomes :
          hp' = [fn |-> "ClarificationNode.run", state |-> s, llm |-> a,
                 out |-> ClarificationNodeRun(s, a)]
    /\ UNCHANGED <<sysVars, turnVars, seg, mg>>

----------------------------------------------------------------------------
(* Specifications *)

Init ==
    /\ sessions = [c \in ChatIds |-> NoRow]
    /\ messages = [c \in ChatIds |-> <<>>]
    /\ collections = [c \in ChatIds |-> <<>>]
    /\ chunkRows = [c \in ChatIds |-> <<>>]
    /\ task = [c \in ChatIds |-> <<>>]
    /\ ask = NoAsk
    /\ other = NoOther
    /\ del = NoDelete
    /\ requests = 0
    /\ stage = "idle"
    /\ st = IdleState
    /\ result = NoResult
    /\ calls = {}
    /\ path = <<>>
    /\ io = <<>>
    /\ seg = [pc |-> "idle"]
    /\ mg = [pc |-> "idle"]
    /\ hp = [fn |-> "idle"]

(* The services with the graph as built *)
Next ==
    \/ \E c \in ChatIds : Received /\ StartIngestion(c)
    \/ \E c \in ChatIds : Received /\ ProcessMultipleUrls(c)
    \/ \E c \in ChatIds : \E t \in DOMAIN task[c] : IngestBegin(c, t)
    \/ \E c \in ChatIds : \E t \in DOMAIN task[c] : IngestScraped(c, t)
    \/ \E c \in ChatIds : \E t \in DOMAIN task[c] : IngestAddChunks(c, t)
    \/ \E c \in ChatIds : \E t \in DOMAIN task[c] : IngestSaveChunks(c, t)
    \/ \E c \in ChatIds : \E t \in DOMAIN task[c] : IngestComplete(c, t)
    \/ \E c \in ChatIds : \E t \in DOMAIN task[c] : IngestCancel(c, t)
    \/ \E c \in ChatIds : Received /\ AskBegin(c)
    \/ AskHistory
    \/ NodeInput
    \/ NodeIntentAnalysis
    \/ RouteAsBuilt
    \/ ProcessMessageRaise
    \/ AskSave
    \/ AskReturn
    \/ \E c \in ChatIds : Received /\ OtherBegin(c)
    \/ OtherHistory
    \/ OtherAgent
    \/ OtherSave
    \/ \E c \in ChatIds : Received /\ DeleteChatHistory(c)
    \/ DeleteCollection
    \/ DeleteRows

Spec == Init /\ [][Next]_vars

(* One call of process_message, with the graph as built *)
NextStages ==
    \/ StartTurn
    \/ NodeInput
    \/ NodeIntentAnalysis
    \/ RouteAsBuilt
    \/ ProcessMessageRaise

SpecStages == Init /\ [][NextStages]_vars

(* the run method of one node object, called once *)
NextNodes ==
    \/ ContextBuilderNodeCall
    \/ RAGNodeCall
    \/ ResponseGenerationNodeCall
    \/ CodeFormattingNodeCall
    \/ MemoryNodeCall
    \/ ClarificationNodeCall

SpecNodes == Init /\ [][NextNodes]_vars

SpecSegment == Init /\ [][SegmentDocument]_vars

SpecMerge == Init /\ [][MergeTwice]_vars

NextHelpers ==
    \/ CodeBlockRoundTrip
    \/ ValidateUrlCall
    \/ ExtractDomainCall

SpecHelpers == Init /\ [][NextHelpers]_vars

(* ingestions, and the store and history operations of turns, of two chats; a   *)
(* behaviour ends with the read it records                                      *)
StoresWrite ==
    \/ \E c \in ChatIds : IngestReceived /\ StartIngestion(c)
    \/ \E c \in ChatIds : IngestReceived /\ ProcessMultipleUrls(c)
    \/ \E c \in ChatIds : \E t \in DOMAIN task[c] : IngestBegin(c, t)
    \/ \E c \in ChatIds : \E t \in DOMAIN task[c] : IngestScraped(c, t)
    \/ \E c \in ChatIds : \E t \in DOMAIN task[c] : IngestAddChunks(c, t)
    \/ \E c \in ChatIds : \E t \in DOMAIN task[c] : IngestSaveChunks(c, t)
    \/ \E c \in ChatIds : \E t \in DOMAIN task[c] : IngestComplete(c, t)
    \/ \E c \in ChatIds : \E t \in DOMAIN task[c] : IngestCancel(c, t)
    \/ \E c \in ChatIds : SaveChatMessage(c, <<>>)
    \/ \E c \in ChatIds : UpdateChunk(c)

NextStores ==
    \/ hp.fn = "idle" /\ StoresWrite
    \/ \E c \in ChatIds : GetChatHistoryCall(c)
    \/ \E c \in ChatIds : SearchSimilarCall(c)

SpecStores == Init /\ [][NextStores]_vars

(* the services with the graph as built on one chat, which may be deleted at    *)
(* any moment and ingested again                                                *)
NextSessions ==
    \/ ReceivedOnChat /\ StartIngestion("c1")
    \/ \E t \in DOMAIN task["c1"] : IngestBegin("c1", t)
    \/ \E t \in DOMAIN task["c1"] : IngestScraped("c1", t)
    \/ \E t \in DOMAIN task["c1"] : IngestAddChunks("c1", t)
    \/ \E t \in DOMAIN task["c1"] : IngestSaveChunks("c1", t)
    \/ \E t \in DOMAIN task["c1"] : IngestComplete("c1", t)
    \/ \E t \in DOMAIN task["c1"] : IngestCancel("c1", t)
    \/ ReceivedOnChat /\ DeleteChatHistory("c1")
    \/ DeleteCollection
    \/ DeleteRows
    \/ ReceivedOnChat /\ AskBegin("c1")
    \/ AskHistory
    \/ ReceivedOnChat /\ OtherBegin("c1")
    \/ OtherHistory
    \/ OtherAgent
    \/ OtherSave
    \/ NodeInput
    \/ NodeIntentAnalysis
    \/ RouteAsBuilt
    \/ ProcessMessageRaise
    \/ AskSave
    \/ AskReturn

SpecSessions == Init /\ [][NextSessions]_vars

(* the history table of two chats: saves and reads *)
NextHistory ==
    \/ \E c \in ChatIds, u \in AskUtterances : SaveChatMessage(c, u)
    \/ \E c \in ChatIds : ReadChatHistoryCall(c)

SpecHistory == Init /\ [][NextHistory]_vars

SpecContext == Init /\ [][BuildContextCall]_vars

(* the ingestion of one chat, and one run of Retrieval on what it stored *)
NextRetrieval ==
    \/ Uncounted /\ StartIngestion("c1")
    \/ \E t \in DOMAIN task["c1"] : IngestBegin("c1", t)
    \/ \E t \in DOMAIN task["c1"] : IngestScraped("c1", t)
    \/ \E t \in DOMAIN task["c1"] : IngestAddChunks("c1", t)
    \/ \E t \in DOMAIN task["c1"] : IngestSaveChunks("c1", t)
    \/ \E t \in DOMAIN task["c1"] : IngestComplete("c1", t)
    \/ \E t \in DOMAIN task["c1"] : IngestCancel("c1", t)
    \/ RetrievalCall("c1")

SpecRetrieval == Init /\ [][NextRetrieval]_vars

(* the history of the chat holds only turns saved with the apology of           *)
(* process_message, as every turn of the graph as built is                      *)
OnlyEarlierTurns(c) ==
    \A i \in 1..Len(messages[c]) : messages[c][i].intent = "error"

(* such a turn is saved on the completed session, between two calls *)
EarlierTurn(c) ==
    /\ ask.pc = "idle"
    /\ SessionReady(sessions[c])
    /\ OnlyEarlierTurns(c)
    /\ SaveChatMessage(c, <<>>)

(* One call of process_chat_message on a chat whose history holds the turns of  *)
(* earlier calls                                                                *)
NextAsk ==
    \/ Uncounted /\ StartIngestion("c1")
    \/ \E t \in DOMAIN task["c1"] : IngestBegin("c1", t)
    \/ \E t \in DOMAIN task["c1"] : IngestScraped("c1", t)
    \/ \E t \in DOMAIN task["c1"] : IngestAddChunks("c1", t)
    \/ \E t \in DOMAIN task["c1"] : IngestSaveChunks("c1", t)
    \/ \E t \in DOMAIN task["c1"] : IngestComplete("c1", t)
    \/ \E t \in DOMAIN task["c1"] : IngestCancel("c1", t)
    \/ EarlierTurn("c1")
    \/ OnlyEarlierTurns("c1") /\ Uncounted /\ AskBegin("c1")
    \/ AskHistory
    \/ NodeInput
    \/ NodeIntentAnalysis
    \/ RouteAsBuilt
    \/ ProcessMessageRaise
    \/ AskSave
    \/ AskReturn

SpecAsk == Init /\ [][NextAsk]_vars

----------------------------------------------------------------------------
(* Properties *)

AfterRoute == path /= <<>> /\ path[Len(path)] = "conditional_router" /\ stage /= "done"

(* the successor the documentation of the workflow gives for an intent *)
StatedSuccessor(intent) ==
    IF intent = "clarification" THEN "clarification"
    ELSE IF intent = "follow_up" THEN "context_builder"
    ELSE "rag"

(* C1: right after Route the turn is at the stage fixed by the intent:          *)
(* clarification at Clarification, follow_up at ContextBuild, code_question and *)
(* general_question at Retrieval, and the router's value selects a successor.   *)
(* The graph as built breaks it: no router value is a key of the path map.      *)
C1_RouteSuccessor ==
    AfterRoute =>
        /\ ConditionalRouterRun(st) \in DOMAIN PathMap
        /\ stage = StatedSuccessor(st.intent)

(* C2: every finished call of process_message returns an answer text that is   *)
(* present and not empty, whatever the utterance, the history and the outcome   *)
(* of the completion call. With the graph as built the text is always the fixed *)
(* apology of the except branch.                                                *)
C2_AnswerNonEmpty == stage = "done" => Truthy(result.response)

(* C3: in the State a node is given and in the State it returns,                *)
(* needs_clarification is true only if clarification_question is set; the       *)
(* State starts with needs_clarification false (NewState), and only             *)
(* ResponseGenerationNode.run and ClarificationNode.run set it.                 *)
C3_ClarificationQuestionSet ==
    hp.fn /= "idle" =>
        /\ hp.state.needs_clarification => hp.state.clarification_question /= None
        /\ hp.out.needs_clarification => hp.out.clarification_question /= None

(* ResponseGenerationNode.run was given a State of low confidence and returned  *)
(* it asking for clarification                                                  *)
C3_Witness ==
    /\ hp.fn = "ResponseGenerationNode.run"
    /\ ~hp.state.needs_clarification
    /\ hp.out.needs_clarification
    /\ hp.out.clarification_question = FixedClarification

(* the step in which a call of process_chat_message for chat c makes its check  *)
(* of the session                                                               *)
SessionChecked(c) == ask.pc = "idle" /\ ask'.pc /= "idle" /\ ask'.chat_id = c

NotCompleted(row) == row = NoRow \/ row.status /= "completed"

(* the call answered at its check: the agent is not invoked, no store or         *)
(* completion call is made and no turn is added                                 *)
NotAttempted ==
    /\ ask'.pc = "returned"
    /\ stage' = "idle"
    /\ calls' = {}
    /\ messages' = messages
    /\ collections' = collections

(* C4: a call on a session that is not completed (no row, pending, processing, *)
(* failed) is answered at its check of the session and is not attempted: the    *)
(* agent is not invoked, no store or completion call is made and no turn is     *)
(* added to the chat. It returns the not-ready result when the query of the     *)
(* session row answered, and the result of the except branch, with the apology, *)
(* when that query raised.                                                      *)
C4_NotReady ==
    [][\A c \in ChatIds :
          (SessionChecked(c) /\ NotCompleted(sessions[c])) =>
              /\ NotAttempted
              /\ ask'.result = IF ask'.status = QueryRaised
                               THEN ChatErrorResult(c)
                               ELSE NotReadyResult(c)]_vars

(* C4 as stated: every call on a session that is not completed returns the      *)
(* not-ready result. A call whose query of the session row raised returns the   *)
(* result of the except branch instead.                                         *)
C4_AlwaysNotReadyResult ==
    [][\A c \in ChatIds :
          (SessionChecked(c) /\ NotCompleted(sessions[c])) =>
              /\ NotAttempted
              /\ ask'.result = NotReadyResult(c)]_vars

(* a call that found the session in processing has returned the not-ready result *)
C4_Witness ==
    /\ ask.pc = "returned"
    /\ ask.status = "processing"
    /\ ask.result.kind = "not_ready"

(* C5: once the ingestion task of a session has stopped, by completion,         *)
(* exception or cancellation, the session is not in processing, and a session   *)
(* whose task was cancelled is failed with a recorded reason. The code breaks   *)
(* it: cancellation passes both except clauses and leaves the row as it is.     *)
C5_NoProcessingForever ==
    \A c \in ChatIds :
        /\ TaskStopped(c) => sessions[c].status /= "processing"
        /\ (TaskStopped(c) /\ \E t \in DOMAIN task[c] : task[c][t].pc = "cancelled") =>
               (sessions[c].status = "failed" /\ sessions[c].error_message /= None)

(* C6: no fragment of process_document is longer than chunk_size. The code     *)
(* breaks it: sentences are joined with two characters after a test that counts *)
(* one, and titles and code blocks are never measured.                          *)
C6_FragmentWithinChunkSize ==
    seg.pc = "done" =>
        \A i \in 1..Len(seg.chunks) : Len(seg.chunks[i].content) <= seg.chunk_size

(* C7: no fragment of process_document has empty content. The code breaks it:   *)
(* a section content that cleans to the empty text is emitted as a fragment.    *)
C7_NoEmptyFragment ==
    seg.pc = "done" =>
        \A i \in 1..Len(seg.chunks) : seg.chunks[i].content /= <<>>

(* C8: merging the output of merge_overlapping_chunks again changes nothing.    *)
(* The code breaks it: a fragment kept apart from its predecessor can overlap   *)
(* the fragment that results from merging the ones before it.                   *)
C8_MergeIdempotent == mg.pc = "done" => mg.twice = mg.once

(* C9 as stated: in the State RAGNode.run returns, the confidence and every     *)
(* relevance_score are in [0,1], whatever distances the store reports. The code *)
(* breaks it: the score is 1 - distance, unclamped, and a distance above 1      *)
(* gives a negative score.                                                      *)
C9_ScoresInUnitInterval ==
    hp.fn = "RAGNode.run" =>
        /\ 0 <= hp.out.confidence /\ hp.out.confidence <= One
        /\ \A i \in 1..Len(hp.out.retrieved_context) :
               /\ 0 <= hp.out.retrieved_context[i].relevance_score
               /\ hp.out.retrieved_context[i].relevance_score <= One

(* C10 as stated: in the State RAGNode.run returns, the confidence is 0.0       *)
(* exactly when the retrieved list is empty.                                    *)
C10_ZeroIffEmpty ==
    hp.fn = "RAGNode.run" =>
        (hp.out.confidence = 0 <=> hp.out.retrieved_context = <<>>)

(* C10: in the State RAGNode.run returns, an empty retrieved list gives the     *)
(* confidence 0.0, and a list that is not empty gives the mean of its relevance *)
(* scores, which is 0.0 when they sum to zero.                                  *)
C10_EmptyGivesZero ==
    hp.fn = "RAGNode.run" =>
        /\ hp.out.retrieved_context = <<>> => hp.out.confidence = 0
        /\ hp.out.retrieved_context /= <<>> =>
               hp.out.confidence * Len(hp.out.retrieved_context)
                   = SumScores(hp.out.retrieved_context)

(* the store answered the query with no hit, and the confidence is 0.0 *)
C10_Witness ==
    /\ hp.fn = "RAGNode.run"
    /\ hp.general.ok
    /\ hp.out.retrieved_context = <<>>
    /\ hp.out.confidence = 0

(* the node n has run in this turn *)
Ran(n) == \E i \in 1..Len(path) : path[i] = n

(* the turn's log holds a record of node n, and what that record holds *)
Asked(n) == \E i \in 1..Len(io) : io[i].node = n

IoOut(n) == io[CHOOSE i \in 1..Len(io) : io[i].node = n].out

(* the utterance and the history the turn was given *)
GivenUtterance == IoOut("start")[1]

GivenHistory == IoOut("start")[2]

(* the utterance as Input hands it to the classification *)
InputUtterance == InputNodeRun(NewState("c1", GivenUtterance, GivenHistory)).user_message

(* a call whose completion call failed has returned the fixed apology *)
C2_Witness ==
    /\ stage = "done"
    /\ Asked("intent_analysis")
    /\ IoOut("intent_analysis") = LLMFail
    /\ result.response = ProcessApology

(* C11 as stated: in the State ResponseGenerationNode.run returns,              *)
(* needs_clarification is true, with the fixed clarification prompt set,        *)
(* exactly when the retrieval confidence is below 0.3, whether the completion   *)
(* call succeeded or failed. The code tests the confidence inside the try       *)
(* block, after llm.invoke: when the call raises the test is skipped and        *)
(* needs_clarification stays False.                                             *)
C11_ClarifyIffLowConfidence ==
    hp.fn = "ResponseGenerationNode.run" =>
        /\ hp.out.needs_clarification <=> hp.state.confidence < ClarifyBelow
        /\ hp.out.needs_clarification =>
               hp.out.clarification_question = FixedClarification

(* C12 as stated: when a store query of RAGNode.run fails (the general one, the *)
(* code-filtered one, or both), the State it returns has no retrieved fragment  *)
(* and the confidence 0.0; and ResponseGenerationNode.run, given a State with   *)
(* no retrieved fragment and the confidence 0.0, returns it with                *)
(* needs_clarification true. The code breaks both: a failure of the             *)
(* code-filtered query alone leaves the hits of the general query, and a        *)
(* completion call that raises leaves needs_clarification False.                *)
C12_StoreFailureGivesEmptyRetrieval ==
    /\ (hp.fn = "RAGNode.run"
           /\ (~hp.general.ok \/ (hp.state.intent = "code_question" /\ ~hp.code.ok))) =>
          /\ hp.out.retrieved_context = <<>>
          /\ hp.out.confidence = 0
    /\ (hp.fn = "ResponseGenerationNode.run"
           /\ hp.state.retrieved_context = <<>> /\ hp.state.confidence = 0) =>
          hp.out.needs_clarification

(* what the completion service gave the classification, and whether its text,   *)
(* trimmed and lower-cased, is one of the four labels                           *)
RefineOut == IoOut("intent_analysis")

RefineOutIsLabel ==
    /\ RefineOut /= LLMFail
    /\ \E i \in Intents : IntentText[i] = Lower(Strip(RefineOut))

(* the classification has just returned: st holds its result and the utterance  *)
(* it was given                                                                 *)
Classified == stage = "conditional_router"

(* C13: for every utterance, every history and every outcome of the completion  *)
(* call (a text or a failure), the classification leaves one of the four        *)
(* intents in the state, and the intent stays one of the four to the end of the *)
(* turn.                                                                        *)
C13_IntentInEnumeration == Ran("intent_analysis") => st.intent \in Intents

(* the completion service returned a text that is no label *)
C13_Witness ==
    /\ Classified
    /\ RefineOut = <<"i","f"," ","o","k">>
    /\ st.intent \in Intents

(* C14 as stated: when all four pattern scores of the utterance are zero the    *)
(* classification returns general_question.                                     *)
C14_NoMatchGivesGeneral ==
    (Classified /\ MaxScore(st.user_message) = 0) => st.intent = "general_question"

(* C14: when all four pattern scores are zero, Step 1 gives general_question,   *)
(* and the classification returns general_question unless the completion text,  *)
(* trimmed and lower-cased, is one of the four labels, which it then returns.   *)
C14_NoMatchDefault ==
    (Classified /\ MaxScore(st.user_message) = 0) =>
        /\ DetectIntentByPatterns(st.user_message) = "general_question"
        /\ IF RefineOutIsLabel
           THEN IntentText[st.intent] = Lower(Strip(RefineOut))
           ELSE st.intent = "general_question"

(* no pattern matched and the completion text was no label *)
C14_Witness ==
    /\ Classified
    /\ MaxScore(st.user_message) = 0
    /\ ~RefineOutIsLabel
    /\ st.intent = "general_question"

(* C15: Step 1 gives an intent of maximal pattern score over the lower-cased    *)
(* utterance; when several intents share a maximal score above zero it gives    *)
(* the first of them in the order code_question, follow_up, general_question,   *)
(* clarification. Read on the turns where Step 2 kept the result of Step 1.     *)
C15_FirstOfMaximalScore ==
    (Classified /\ ~RefineOutIsLabel) =>
        /\ PatternScore(st.user_message, st.intent) = MaxScore(st.user_message)
        /\ MaxScore(st.user_message) > 0 =>
               \E k \in 1..Len(IntentOrder) :
                   /\ IntentOrder[k] = st.intent
                   /\ \A j \in 1..(k - 1) :
                         PatternScore(st.user_message, IntentOrder[j])
                             < MaxScore(st.user_message)

(* two intents share the maximal score, which is above zero *)
C15_Witness ==
    /\ Classified
    /\ ~RefineOutIsLabel
    /\ MaxScore(st.user_message) > 0
    /\ \E i, j \in Intents :
          /\ i /= j
          /\ PatternScore(st.user_message, i) = MaxScore(st.user_message)
          /\ PatternScore(st.user_message, j) = MaxScore(st.user_message)

(* C16: Step 2 returns the completion text, trimmed and lower-cased, when that  *)
(* is one of the four labels; when the text is no label, or the completion call *)
(* or the building of the prompt fails, it returns the result of Step 1 and the *)
(* turn goes on to the router.                                                  *)
C16_RefinementOrStepOne ==
    Classified =>
        IF RefineOutIsLabel
        THEN IntentText[st.intent] = Lower(Strip(RefineOut))
        ELSE st.intent = DetectIntentByPatterns(st.user_message)

(* a label given with other case and surrounding whitespace replaced Step 1's   *)
(* result                                                                       *)
C16_Witness ==
    /\ Classified
    /\ RefineOut = <<" ","F","o","l","l","o","w","_","U","p","\n">>
    /\ st.intent = "follow_up"
    /\ DetectIntentByPatterns(st.user_message) /= "follow_up"

(* the intent the classification returned in this turn, recomputed from what    *)
(* the turn was given: ContextBuild overwrites st.intent                        *)
ClassifiedAs ==
    RefineIntentWithLlm(InputUtterance, DetectIntentByPatterns(InputUtterance),
                        GivenHistory, RefineOut)

(* C17 as stated: a turn whose utterance is empty or only whitespace has it     *)
(* replaced by the fixed prompt at Input, is classified general_question, runs  *)
(* Retrieval, Synthesis, PostProcess and Memory, and ends without an error      *)
(* result.                                                                      *)
C17_BlankUtteranceTurn ==
    (stage = "done" /\ Asked("start") /\ Strip(GivenUtterance) = <<>>) =>
        /\ st.user_message = EmptyPrompt
        /\ st.intent = "general_question"
        /\ Ran("rag") /\ Ran("response_generation")
        /\ Ran("code_formatting") /\ Ran("memory")
        /\ result.intent /= "error"

(* C18 as stated: a turn classified follow_up with a history that is not empty  *)
(* runs ContextBuild before Retrieval; the utterance becomes the original one   *)
(* preceded by a context summary that is not empty, and the intent becomes      *)
(* general_question. The graph as built breaks it: the turn ends at the router, *)
(* neither ContextBuild nor Retrieval runs, and the utterance is not rewritten. *)
C18_FollowUpRewritten ==
    (stage = "done" /\ ClassifiedAs = "follow_up" /\ GivenHistory /= <<>>) =>
        /\ \E i, j \in 1..Len(path) :
              i < j /\ path[i] = "context_builder" /\ path[j] = "rag"
        /\ st.intent = "general_question"
        /\ BuildContextFromHistory(GivenHistory) /= <<>>
        /\ st.user_message =
               ContextPrefix \o BuildContextFromHistory(GivenHistory)
                   \o QuestionPrefix \o InputUtterance

(* C19 as stated: ContextBuilderNode.run leaves the utterance as it was when    *)
(* the history is empty and when the summary built from the history is the      *)
(* empty text; in both cases the intent becomes general_question and Retrieval  *)
(* is next. The code breaks the second case: only an empty history is tested,   *)
(* and an empty summary is put before the utterance with both fixed labels.     *)
C19_NoContextNoRewrite ==
    (hp.fn = "ContextBuilderNode.run"
        /\ (hp.state.chat_history = <<>>
               \/ BuildContextFromHistory(hp.state.chat_history) = <<>>)) =>
        /\ hp.out.user_message = hp.state.user_message
        /\ hp.out.intent = "general_question"
        /\ StaticEdges.context_builder = "rag"

(* C20 as stated: a turn whose classification is clarification runs             *)
(* Clarification and ends there: no Retrieval, Synthesis, PostProcess or Memory,*)
(* no store query, and at the end needs_clarification is true with a            *)
(* clarification question, no retrieved fragment and the confidence 0.0.        *)
C20_ClarificationTurn ==
    (stage = "done" /\ Asked("intent_analysis") /\ ClassifiedAs = "clarification") =>
        /\ path = <<"input", "intent_analysis", "conditional_router", "clarification">>
        /\ calls \cap {"store_general", "store_code"} = {}
        /\ result.needs_clarification
        /\ st.needs_clarification
        /\ Truthy(st.clarification_question)
        /\ st.retrieved_context = <<>>
        /\ st.confidence = 0

(* C21 as stated: Retrieval issues the general query, and the code-filtered     *)
(* query exactly when the intent at Retrieval is code_question; a turn whose    *)
(* utterance scores highest for code_question reaches Retrieval and issues the  *)
(* code-filtered query.                                                         *)
C21_CodeQuestionRetrieval ==
    /\ Ran("rag") =>
          /\ "store_general" \in calls
          /\ "store_code" \in calls <=> st.intent = "code_question"
    /\ (stage = "done" /\ Asked("intent_analysis")
           /\ MaxScore(InputUtterance) > 0
           /\ DetectIntentByPatterns(InputUtterance) = "code_question") =>
          /\ Ran("rag")
          /\ "store_general" \in calls
          /\ "store_code" \in calls

CountOf(s, x) == Cardinality({ i \in 1..Len(s) : s[i] = x })

(* the answers of a query restricted to the code-block fragments of the stored  *)
(* collection, with n_results=5, for the distances of the call                  *)
StatedCodeHits ==
    NearestAnswers(hp.stored, CodeBlocksByType(hp.stored), hp.dist, 5)

C23_ClarificationTakesPrecedence ==
    stage = "done" =>
        IF result.needs_clarification
        THEN result.response = st.clarification_question
        ELSE result.response = Or(st.formatted_response, st.response)

(* C24: when the completion call of ResponseGenerationNode.run fails, the       *)
(* method returns the State it was given with the fixed apology as its answer   *)
(* and raises nothing; the add_edge order goes on from response_generation      *)
(* through code_formatting and memory to END, and the answer process_message    *)
(* takes from the State those two leave is not empty.                           *)
C24_SynthesisFailureApology ==
    (hp.fn = "ResponseGenerationNode.run" /\ hp.llm = LLMFail) =>
        /\ hp.out = [hp.state EXCEPT !.response = GenerationApology]
        /\ StaticEdges.response_generation = "code_formatting"
        /\ StaticEdges.code_formatting = "memory"
        /\ StaticEdges.memory = "END"
        /\ LET left == MemoryNodeRun(CodeFormattingNodeRun(hp.out))
           IN  /\ left.response = GenerationApology
               /\ Truthy(ProcessMessageResult(left).response)

(* the completion call failed on a State with retrieved fragments *)
C24_Witness ==
    /\ hp.fn = "ResponseGenerationNode.run"
    /\ hp.llm = LLMFail
    /\ hp.state.retrieved_context /= <<>>
    /\ hp.out.response = GenerationApology

(* the answer as passes (a) and (b) of the post-processor leave it *)
BeforeTerms == FormatCommands(FormatCodeBlocks(hp.state.response, 1), 1)

(* a fenced code block or an inline backtick span starts at k *)
CodeRegionAt(t, k) == CodeMatchAt(t, k) \/ CommandMatchAt(t, k)

(* the last position of the region that starts at k *)
CodeRegionEnd(t, k) ==
    IF CodeMatchAt(t, k)
    THEN LET e == WordRunEnd(t, k + 3)
         IN  2 + CHOOSE j \in (e + 2)..Len(t) :
                     IsFenceAt(t, j) /\ \A i \in (e + 2)..(j - 1) : ~IsFenceAt(t, i)
    ELSE CHOOSE j \in (k + 2)..Len(t) :
             t[j] = Tick /\ \A i \in (k + 2)..(j - 1) : t[i] /= Tick

(* the term substitution applied to the prose of t from position p on, with the *)
(* fenced code blocks and the inline backtick spans kept as they are            *)
RECURSIVE TermsOnProse(_, _)
TermsOnProse(t, p) ==
    IF \A k \in p..Len(t) : ~CodeRegionAt(t, k)
    THEN FormatTechnicalTerms(SubSeq(t, p, Len(t)))
    ELSE LET k == CHOOSE k \in p..Len(t) :
                      CodeRegionAt(t, k) /\ \A j \in p..(k - 1) : ~CodeRegionAt(t, j)
             e == CodeRegionEnd(t, k)
         IN  FormatTechnicalTerms(SubSeq(t, p, k - 1)) \o SubSeq(t, k, e)
                 \o TermsOnProse(t, e + 1)

(* C25 as stated: pass (c) of the post-processor changes only prose: the text   *)
(* inside fenced code blocks and inside inline backtick spans is the same after *)
(* the pass as before it, so the formatted answer CodeFormattingNode.run leaves *)
(* is the substitution applied to the prose alone.                              *)
C25_TermsLeaveCodeAlone ==
    (hp.fn = "CodeFormattingNode.run" /\ Truthy(hp.state.response)) =>
        hp.out.formatted_response = TermsOnProse(BeforeTerms, 1)

(* C26 as stated: for every language tag and every code text, extracting the    *)
(* code blocks of format_code_block(code, language) gives exactly one block,    *)
(* with that language and that code verbatim.                                   *)
C26_CodeBlockRoundTrip ==
    hp.fn = "code_block_round_trip" =>
        hp.out = <<[language |-> hp.language, code |-> hp.code]>>

(* the url is an http or https URL with a host *)
IsHttpUrlWithHost(url) ==
    /\ ~UrlParse(url).raised
    /\ UrlParse(url).scheme \in {<<"h","t","t","p">>, <<"h","t","t","p","s">>}
    /\ UrlParse(url).netloc /= <<>>

(* C29 as stated: validate_url returns true for the http and https URLs that    *)
(* have a host and false for every other string: the empty one, one without a   *)
(* scheme or a host, one with another scheme such as ftp://invalid.             *)
C29_ValidateUrlHttpOnly ==
    hp.fn = "validate_url" => (hp.out <=> IsHttpUrlWithHost(hp.url))

(* C30 as stated: extract_domain returns the host of a well-formed URL, and     *)
(* None, not the empty string, for a string without a scheme and a host such as *)
(* invalid-url.                                                                 *)
C30_ExtractDomainOrNone ==
    hp.fn = "extract_domain" =>
        IF ~UrlParse(hp.url).raised /\ UrlParse(hp.url).netloc /= <<>>
        THEN hp.out = UrlParse(hp.url).netloc
        ELSE hp.out = None

(* the step is one of an operation that was called with the chat id a: the      *)
(* request that starts an ingestion, a step of a call of process_documentation  *)
(* that such a request started, the save of a turn, the update of a fragment    *)
ActsFor(a) ==
    \/ StartIngestion(a)
    \/ ProcessMultipleUrls(a)
    \/ \E b \in ChatIds : \E t \in DOMAIN task[b] :
          /\ task[b][t].request_chat_id = a
          /\ \/ IngestBegin(b, t)
             \/ IngestScraped(b, t)
             \/ IngestAddChunks(b, t)
             \/ IngestSaveChunks(b, t)
             \/ IngestComplete(b, t)
             \/ IngestCancel(b, t)
    \/ SaveChatMessage(a, <<>>)
    \/ UpdateChunk(a)

(* the chat b is a session of its own: POST /process-documentation was called   *)
(* with its id                                                                  *)
OwnSession(b) == \E t \in DOMAIN task[b] : task[b][t].request_chat_id = b

(* C27 as stated: under every interleaving of the ingestions and of the store   *)
(* and history operations of two chats, a step of an operation called for one   *)
(* chat leaves the fragments, the chunk rows and the history turns of every     *)
(* other session as they were, and a read for a chat returns only fragments     *)
(* added under that chat and only its own turns. The code breaks the first      *)
(* part: process_multiple_urls called for a chat ingests its first URL under    *)
(* the id it derives from the chat id, which can be the id of another session.  *)
C27_SessionsIsolated ==
    [][ /\ \A a, b \in ChatIds :
              (a /= b /\ OwnSession(b) /\ ActsFor(a)) =>
                  /\ collections'[b] = collections[b]
                  /\ chunkRows'[b] = chunkRows[b]
                  /\ messages'[b] = messages[b]
        /\ (hp' /= hp /\ hp'.fn = "search_similar") =>
              \A i \in 1..Len(hp'.raw) :
                  /\ hp'.raw[i].id[2] = hp'.chat
                  /\ \E j \in 1..Len(collections[hp'.chat]) :
                        /\ collections[hp'.chat][j].id = hp'.raw[i].id
                        /\ collections[hp'.chat][j].document = hp'.raw[i].content
        /\ (hp' /= hp /\ hp'.fn = "_get_chat_history") =>
              hp'.out \in {GetChatHistory(messages[hp'.chat]), <<>>}
      ]_vars

(* C28 as stated: reading the history of a chat gives its turns oldest first:   *)
(* all of them without a limit, and with a limit n the n most recent ones.      *)
C28_HistoryReadOrder ==
    (hp.fn = "get_chat_history" /\ hp.ok) =>
        hp.out = IF hp.limit = NoLimit THEN hp.rows ELSE LastN(hp.rows, hp.limit)

(* the stage sequences the workflow states for a whole turn *)
TurnHead == <<"input", "intent_analysis", "conditional_router">>

AnswerTail == <<"rag", "response_generation", "code_formatting", "memory">>

StatedTurnPaths ==
    { TurnHead \o <<"clarification">>,
      TurnHead \o AnswerTail,
      TurnHead \o <<"context_builder">> \o AnswerTail }

IsPrefixOf(p, q) == Len(p) <= Len(q) /\ \A i \in 1..Len(p) : p[i] = q[i]

(* C31 as stated: a turn ends after a bounded number of stage transitions, no   *)
(* stage runs twice in it, and the stages that ran by the end of the turn are   *)
(* Input, IntentClassification, Route, then either Clarification or (optionally *)
(* ContextBuild) Retrieval, Synthesis, PostProcess, Memory, in that order. The  *)
(* graph as built breaks it: every turn ends at Route, where app.invoke raises, *)
(* and neither Clarification nor Retrieval runs.                                *)
C31_TurnRunsStatedStages ==
    /\ \A i, j \in 1..Len(path) : path[i] = path[j] => i = j
    /\ \E q \in StatedTurnPaths : IsPrefixOf(path, q)
    /\ stage = "done" => path \in StatedTurnPaths

(* the answer of a State: the formatted answer if there is one, else the raw one *)
FinalAnswer(s) == IF s.formatted_response /= None THEN s.formatted_response ELSE s.response

(* C32: MemoryNode.run returns the State with the history it was given and      *)
(* exactly one turn appended at its end, which carries the final answer of the  *)
(* State (the formatted answer if present, else the raw answer), its intent and *)
(* its confidence: the earlier turns keep content and position. The run method  *)
(* of every other node returns the history as it was given.                     *)
C32_MemoryAppendsOneTurn ==
    hp.fn /= "idle" =>
        IF hp.fn = "MemoryNode.run"
        THEN /\ Len(hp.out.chat_history) = Len(hp.state.chat_history) + 1
             /\ \A i \in 1..Len(hp.state.chat_history) :
                    hp.out.chat_history[i] = hp.state.chat_history[i]
             /\ LET last == hp.out.chat_history[Len(hp.out.chat_history)]
                IN  /\ last.response = FinalAnswer(hp.state)
                    /\ last.intent = hp.state.intent
                    /\ last.confidence = hp.state.confidence
        ELSE hp.out.chat_history = hp.state.chat_history

(* MemoryNode.run was given a State with one earlier turn and a formatted       *)
(* answer that differs from the raw one                                         *)
C32_Witness ==
    /\ hp.fn = "MemoryNode.run"
    /\ Len(hp.state.chat_history) = 1
    /\ hp.state.formatted_response /= None
    /\ hp.state.formatted_response /= hp.state.response
    /\ hp.state.confidence > 0
    /\ Len(hp.out.chat_history) = 2

(* the values the data model allows for the intent of a turn: a label or null *)
TurnIntents == Intents \cup {"None"}

(* C33 as stated: every turn recorded in the history of a session, and every    *)
(* result returned by a call on a completed session, has an intent that is one  *)
(* of the four labels or null. The code breaks it: the except branches of       *)
(* process_message and of process_chat_message answer with the intent 'error',  *)
(* and the former is saved as the turn's intent.                                *)
C33_RecordedIntentInEnumeration ==
    /\ \A c \in ChatIds : \A i \in 1..Len(messages[c]) :
           messages[c][i].intent \in TurnIntents
    /\ (ask.pc = "returned" /\ ask.status = "completed") =>
           ask.result.intent \in TurnIntents

(* C34 as stated: whenever the status of a session is failed, a failure reason  *)
(* is recorded for it, whatever step of the ingestion failed and whether or not *)
(* the session row existed when the failure was written. The code breaks it:    *)
(* when the row is gone, _update_processing_status creates a new one with the   *)
(* status alone and drops the message.                                          *)
C34_FailedHasReason ==
    \A c \in ChatIds :
        sessions[c].status = "failed" => sessions[c].error_message /= None

(* a key line as stated: not empty, shorter than 200 characters, holding a cue word *)
StatedKeyLine(line) ==
    /\ line /= <<>>
    /\ Len(line) < 200
    /\ \E kw \in CueWords :
          \E i \in 1..(Len(line) - Len(kw) + 1) :
              SubSeq(Lower(line), i, i + Len(kw) - 1) = kw

(* the first two key lines of an answer *)
StatedKeptLines(answer) ==
    LET lines == SplitOn(answer, "\n", <<>>)
        stripped == [i \in 1..Len(lines) |-> Strip(lines[i])]
        keys == SelectSeq(stripped, StatedKeyLine)
    IN  SubSeq(keys, 1, Min(2, Len(keys)))

(* the kept lines of the turns from position i on, in turn order *)
RECURSIVE StatedContextLines(_, _)
StatedContextLines(h, i) ==
    IF i > Len(h) THEN <<>>
    ELSE StatedKeptLines(h[i].response) \o StatedContextLines(h, i + 1)

(* C35: the context built from a history is made of the answers of its last 4   *)
(* turns only: from each, at most its first 2 key lines (non-empty lines        *)
(* shorter than 200 characters that hold a cue word), joined by single spaces   *)
(* in turn order; so it holds at most 8 key lines, none of an older turn.       *)
C35_ContextFromLastFourTurns ==
    hp.fn = "_build_context_from_history" =>
        LET h == hp.history
            first == IF Len(h) > 4 THEN Len(h) - 3 ELSE 1
            lines == StatedContextLines(h, first)
        IN  /\ hp.out = Join(<<" ">>, lines)
            /\ Len(lines) <= 8

(* a history of five turns: the oldest has key lines, one of the last four has  *)
(* three key lines and another a line of 200 characters                         *)
C35_Witness ==
    /\ hp.fn = "_build_context_from_history"
    /\ Len(hp.history) = 5
    /\ StatedKeptLines(hp.history[1].response) /= <<>>
    /\ \E i \in 2..5 : Len(hp.history[i].response) = 21
    /\ \E i \in 2..5 : Len(hp.history[i].response) > 200
    /\ hp.out /= <<>>

(* the status changes the claim allows; a new row starts as pending *)
StatedStatusSteps ==
    { <<"<no row>", "pending">>, <<"pending", "processing">>,
      <<"processing", "completed">>, <<"processing", "failed">> }

(* every fragment of the call of process_documentation for c that takes the     *)
(* step is in the store and in the chunk table                                  *)
FragmentsStored(c) ==
    \A t \in DOMAIN task[c] :
        task'[c][t] /= task[c][t] =>
            /\ \A i \in 1..Len(task[c][t].chunks) :
                  \E j \in 1..Len(collections[c]) :
                      collections[c][j].document = task[c][t].chunks[i].content
            /\ \A i \in 1..Len(task[c][t].chunks) :
                  \E j \in 1..Len(chunkRows[c]) :
                      chunkRows[c][j].content = task[c][t].chunks[i].content

(* C36 as stated: the status of a session changes only along pending ->         *)
(* processing -> completed or pending -> processing -> failed; it becomes       *)
(* completed only when every fragment of the document is in the store and in    *)
(* the chunk table; and a status that is completed or failed is not changed by  *)
(* the ingestion task; the steps of a delete, which remove the row, are left    *)
(* aside. The code breaks the first part: a status update whose commit fails is *)
(* dropped silently and the task goes on, so the next update takes the status   *)
(* from pending straight to completed or failed.                                *)
C36_StatusSteps ==
    [][ \A c \in ChatIds :
            sessions'[c] /= NoRow =>
                /\ sessions'[c].status /= sessions[c].status =>
                      <<sessions[c].status, sessions'[c].status>> \in StatedStatusSteps
                /\ (sessions'[c].status = "completed" /\ sessions[c].status /= "completed") =>
                      FragmentsStored(c)
                /\ sessions[c].status \in {"completed", "failed"} =>
                      sessions'[c] = sessions[c]
      ]_vars

(* the chat has no session row, no fragments and no history *)
DeletedState(c) ==
    /\ sessions[c] = NoRow
    /\ collections[c] = <<>>
    /\ messages[c] = <<>>

(* the step in which delete_chat returns for c, every part of it reported done *)
DeleteWentThrough(c) ==
    /\ del.chat_id = c
    /\ del.chat_deleted
    /\ DeleteRowsOutcome(TRUE)

(* C37 as stated: a delete_chat that went through leaves the chat without       *)
(* session row, fragments and history; and a chat in that state whose ingestion *)
(* task was started before stays in it until a new ingestion is started: the    *)
(* task in flight neither re-creates the row nor re-adds fragments, and a call  *)
(* of process_chat_message on it is answered as not ready. The code breaks it:  *)
(* the task in flight goes on after the delete, and its next status update      *)
(* creates the row again; a call of process_chat_message that passed its        *)
(* session check before the delete saves its turn after it.                     *)
C37_DeletedStaysDeleted ==
    [][ \A c \in ChatIds :
            /\ DeleteWentThrough(c) => DeletedState(c)'
            /\ (DeletedState(c) /\ task[c] /= <<>> /\ Len(task'[c]) = Len(task[c])) =>
                  DeletedState(c)'
            /\ (DeletedState(c) /\ ask.pc = "idle" /\ ask'.pc /= "idle" /\ ask'.chat_id = c) =>
                  ask'.result = NotReadyResult(c)
      ]_vars

(* the stored history of the chat of the call is the history the call found,    *)
(* row by row, and then n more rows                                             *)
HistoryKeptPlus(n) ==
    /\ Len(messages[ask.chat_id]) = ask.turns_before + n
    /\ Len(GivenHistory) \in {0, ask.turns_before}
    /\ \A i \in 1..Len(GivenHistory) :
          /\ messages[ask.chat_id][i].message = GivenHistory[i].message
          /\ messages[ask.chat_id][i].response = GivenHistory[i].response
          /\ messages[ask.chat_id][i].intent = GivenHistory[i].intent

(* C38: a call of process_chat_message on a completed session that returns the  *)
(* agent's result has added exactly one turn to the stored history of that      *)
(* session, which holds the caller's utterance as it was given, not as the      *)
(* nodes rewrote it, and the answer text and intent that are returned; a call   *)
(* whose save failed has added nothing and returns the error result of the      *)
(* service. With the graph as built the agent's result is always the result of  *)
(* its except branch, and it is stored in this way like any other.              *)
C38_AnswerStoredOnce ==
    (ask.pc = "returned" /\ ask.status = "completed") =>
        /\ ask.result.kind /= "chat_error" =>
              /\ ask.result.kind \in {"answer", "error"}
              /\ HistoryKeptPlus(1)
              /\ LET row == messages[ask.chat_id][ask.turns_before + 1]
                 IN  /\ row.message = ask.message
                     /\ row.message = GivenUtterance
                     /\ row.response = ask.result.response
                     /\ row.intent = ask.result.intent
        /\ ask.result.kind = "chat_error" =>
              /\ HistoryKeptPlus(0)
              /\ ask.result = ChatErrorResult(ask.chat_id)
              /\ "save" \in calls

(* a call with a blank utterance, which InputNode replaced by its fixed prompt, *)
(* returned the agent's result on a history of one earlier turn                 *)
C38_Witness ==
    /\ ask.pc = "returned"
    /\ ask.status = "completed"
    /\ ask.result.kind = "error"
    /\ ask.turns_before = 1
    /\ ask.message = <<>>
    /\ st.user_message = EmptyPrompt
    /\ messages[ask.chat_id][2].message = <<>>

(* a call whose save failed returned the error result *)
C38_SaveFailed ==
    /\ ask.pc = "returned"
    /\ ask.status = "completed"
    /\ ask.result.kind = "chat_error"

(* C39 as stated: on a turn classified follow_up the intent Retrieval sees is   *)
(* general_question, so the turn issues no code-filtered query, and the intent  *)
(* reported by the finished turn is general_question, never follow_up.          *)
C39_FollowUpReportedGeneral ==
    (Ran("intent_analysis") /\ ClassifiedAs = "follow_up") =>
        /\ stage = "rag" => st.intent = "general_question"
        /\ "store_code" \notin calls
        /\ stage = "done" =>
              /\ Ran("rag")
              /\ result.intent = "general_question"

(* the results that are the stored fragment with content and metadata of x *)
SameFragment(x, y) == x.content = y.content /\ x.metadata = y.metadata

(* the mean score over the distinct fragments of a result list *)
MeanOverDistinct(results) ==
    LET firsts == { i \in 1..Len(results) :
                      \A j \in 1..(i - 1) : ~SameFragment(results[i], results[j]) }
        RECURSIVE Sum(_)
        Sum(S) == IF S = {} THEN 0
                  ELSE LET i == CHOOSE x \in S : TRUE
                       IN  results[i].relevance_score + Sum(S \ {i})
    IN  IF firsts = {} THEN 0 ELSE Sum(firsts) \div Cardinality(firsts)

C40_StoredFragmentsDiffer ==
    \A c \in ChatIds : \A i, j \in 1..Len(collections[c]) :
        collections[c][i].document = collections[c][j].document => i = j

====
